---- MODULE Spec2Model ----
(***************************************************************************)
(* cairocffi: ownership of foreign cairo handles by Surface and Pattern    *)
(* wrappers (surfaces.py, patterns.py), the KeepAlive registry and the     *)
(* type-tag dispatch of _from_pointer.                                     *)
(*                                                                         *)
(* The cairo library is the environment: a handle has a reference count,   *)
(* a type tag and a status; user data attached with a destroy function is  *)
(* released by cairo, through that function, no earlier than the moment    *)
(* the handle's count reaches zero (or the data is replaced).              *)
(***************************************************************************)
EXTENDS Integers, Sequences, FiniteSets, TLC

\* ---------------------------------------------------------------- bounds
MaxHandles == 2
MaxWrappers == 3
MaxBundles == 2
MaxCalls == 2
MaxChunk == 2       \* longest buffer handed to a stream adapter
MaxIO == 2          \* adapter invocations followed in one stream
MaxPixels == 2      \* pixels of an image
MaxAlpha == 2       \* largest channel value of a pixel
MaxVersion == 3     \* largest version or level value asked for
MaxItems == 2       \* items of a caller-supplied buffer
MaxItemSize == 2    \* bytes of one item of a buffer
MaxStride == 2      \* bytes between the rows of an image
MaxHeight == 2      \* rows of an image

NULL == 0
Handles == 1..MaxHandles
Wrappers == 1..MaxWrappers
Bundles == 1..MaxBundles

\* ------------------------------------------------------ foreign vocabulary
SUCCESS == "SUCCESS"
ErrorCodes == {"NO_MEMORY"}
Statuses == {SUCCESS} \cup ErrorCodes

\* type tags cairo may report; SUBSURFACE and MESH have no local class
SurfaceTags == {"IMAGE", "PDF", "PS", "SVG", "RECORDING", "SUBSURFACE"}
PatternTags == {"SOLID", "SURFACE", "LINEAR", "RADIAL", "MESH"}

StreamTargets == {"fileobj", "None", "filename"}
MimeTypes == {"image/png"}

\* statuses a stream callback hands back to cairo
READ_ERROR == "READ_ERROR"
WRITE_ERROR == "WRITE_ERROR"

RECURSIVE SeqsUpTo(_, _)
SeqsUpTo(S, n) ==
    IF n = 0 THEN {<<>>}
    ELSE LET shorter == SeqsUpTo(S, n - 1)
         IN shorter \cup {Append(q, x) : q \in {p \in shorter : Len(p) = n - 1}, x \in S}

\* contents of the buffers and streams the adapters are given
DataBytes == {0, 1}
Buffers == SeqsUpTo(DataBytes, MaxChunk)

\* an ARGB32 pixel <<alpha, colour>> with the colour premultiplied; an image
\* is a non-empty row of pixels
PixelValues == {q \in (0..MaxAlpha) \X (0..MaxAlpha) : q[2] <= q[1]}
Images == SeqsUpTo(PixelValues, MaxPixels) \ {<<>>}

VARIABLES
    rc,         \* handle -> foreign reference count (0: not allocated / freed)
    htype,      \* handle -> type tag, "NONE" before allocation
    hstatus,    \* handle -> status embedded in the foreign object
    hsrc,       \* pattern handle -> surface handle it references (or NULL)
    hretains,   \* handle -> local object the foreign object points into
    userdata,   \* handle -> bundle under SURFACE_TARGET_KEY (or NULL)
    mime,       \* handle -> [mime type -> bundle attached (or NULL)]
    wstate,     \* wrapper -> "unused" | "live" | "failed" | "dead"
    wptr,       \* wrapper -> handle held in self._pointer
    wclass,     \* wrapper -> Python class of the instance
    wvia,       \* wrapper -> "ctor" | "from_pointer" | "none"
    wdestroys,  \* wrapper -> destroy calls issued by its ffi.gc finalizer
    kobjects,   \* bundle -> what KeepAlive.objects holds, "none" if not created
    kcaller,    \* bundle -> wrapper whose set_mime_data is between attach and save
    kattach,    \* bundle -> "none" | "ok" | "failed": what the foreign call given its closure reported
    saves,      \* bundle -> number of save() calls
    fired,      \* bundle -> "no" | "removed" | "KeyError": outcome of its callback
    instances,  \* KeepAlive.instances
    pending,    \* bundles whose destroy callback cairo still has to invoke
    last,       \* the most recent operation and the foreign calls it made
    tracking,   \* whether operations are recorded in last
    hpix,       \* handle -> pixel content of an image surface (<<>> if none)
    sink,       \* bytes the local sink of a write adapter has accepted
    source,     \* bytes the local source of a read adapter has not yet returned
    adapter,    \* invocations of the stream adapters by cairo, in order
    png,        \* bytes returned by the last write_to_png(None), and the handle written
    xfer,       \* adapter invocations made within the last PNG call
    mdata,      \* bundle -> the bytes given to set_mime_data, their char[] copy and the length given to cairo
    cmem,       \* write adapter invocation -> what the foreign memory it was given holds now
    call        \* arguments and outcome of the last call whose arguments are numbers

hvars == <<rc, htype, hstatus, hsrc, hretains, userdata, mime>>
wvars == <<wstate, wptr, wclass, wvia, wdestroys>>
kvars == <<kobjects, kcaller, kattach, saves, fired, instances, pending>>
iovars == <<hpix, sink, source, adapter, png, xfer>>
auxvars == <<mdata, cmem, call>>
vars == <<hvars, wvars, kvars, last, tracking, iovars, auxvars>>

NoOp == [op |-> "none", w |-> 0, ptr |-> NULL, incref |-> FALSE,
         result |-> "ok", calls |-> <<>>, rcBefore |-> 0, b |-> 0, cls |-> "none", arg |-> "none"]

\* set_mime_data has been given no bytes
NoData == [data |-> <<>>, mem |-> <<>>, length |-> 0]

\* no call with numeric arguments has been made
NoCall == [fn |-> "none"]

\* no stream has been used yet
InitStreams ==
    /\ hpix = [h \in Handles |-> <<>>]
    /\ sink = <<>>
    /\ source = <<>>
    /\ adapter = [reads |-> <<>>, writes |-> <<>>]
    /\ png = [bytes |-> <<>>, of |-> NULL]
    /\ xfer = <<>>
    /\ mdata = [b \in Bundles |-> NoData]
    /\ cmem = <<>>
    /\ call = NoCall

Init ==
    /\ rc = [h \in Handles |-> 0]
    /\ htype = [h \in Handles |-> "NONE"]
    /\ hstatus = [h \in Handles |-> SUCCESS]
    /\ hsrc = [h \in Handles |-> NULL]
    /\ hretains = [h \in Handles |-> "none"]
    /\ userdata = [h \in Handles |-> NULL]
    /\ mime = [h \in Handles |-> [t \in MimeTypes |-> NULL]]
    /\ wstate = [w \in Wrappers |-> "unused"]
    /\ wptr = [w \in Wrappers |-> NULL]
    /\ wclass = [w \in Wrappers |-> "none"]
    /\ wvia = [w \in Wrappers |-> "none"]
    /\ wdestroys = [w \in Wrappers |-> 0]
    /\ kobjects = [b \in Bundles |-> "none"]
    /\ kcaller = [b \in Bundles |-> 0]
    /\ kattach = [b \in Bundles |-> "none"]
    /\ saves = [b \in Bundles |-> 0]
    /\ fired = [b \in Bundles |-> "no"]
    /\ instances = {}
    /\ pending = {}
    /\ last = NoOp
    /\ tracking = FALSE
    /\ InitStreams

\* the same program with every operation recorded in last
InitOps ==
    /\ rc = [h \in Handles |-> 0]
    /\ htype = [h \in Handles |-> "NONE"]
    /\ hstatus = [h \in Handles |-> SUCCESS]
    /\ hsrc = [h \in Handles |-> NULL]
    /\ hretains = [h \in Handles |-> "none"]
    /\ userdata = [h \in Handles |-> NULL]
    /\ mime = [h \in Handles |-> [t \in MimeTypes |-> NULL]]
    /\ wstate = [w \in Wrappers |-> "unused"]
    /\ wptr = [w \in Wrappers |-> NULL]
    /\ wclass = [w \in Wrappers |-> "none"]
    /\ wvia = [w \in Wrappers |-> "none"]
    /\ wdestroys = [w \in Wrappers |-> 0]
    /\ kobjects = [b \in Bundles |-> "none"]
    /\ kcaller = [b \in Bundles |-> 0]
    /\ kattach = [b \in Bundles |-> "none"]
    /\ saves = [b \in Bundles |-> 0]
    /\ fired = [b \in Bundles |-> "no"]
    /\ instances = {}
    /\ pending = {}
    /\ last = NoOp
    /\ tracking = TRUE
    /\ InitStreams

\* the outcome of an operation, kept in last when operations are recorded
RecordCall(r) ==
    /\ last' = IF tracking THEN r ELSE NoOp
    /\ tracking' = tracking

\* the outcome of an operation that uses no stream
Record(r) ==
    /\ RecordCall(r)
    /\ UNCHANGED iovars
    /\ UNCHANGED auxvars

\* ------------------------------------------------------------ allocation
HasFreshH == \E h \in Handles : htype[h] = "NONE"
FreshH == CHOOSE h \in Handles : htype[h] = "NONE" /\ \A g \in 1..(h - 1) : htype[g] # "NONE"
HasFreshW == \E w \in Wrappers : wstate[w] = "unused"
FreshW == CHOOSE w \in Wrappers : wstate[w] = "unused" /\ \A v \in 1..(w - 1) : wstate[v] # "unused"
HasFreshB == \E b \in Bundles : kobjects[b] = "none"
FreshB == CHOOSE b \in Bundles : kobjects[b] = "none" /\ \A c \in 1..(b - 1) : kobjects[c] # "none"

\* ------------------------------------------------------- status checking
\* _check_status(status): returns normally on SUCCESS, otherwise raises an
\* error that carries the status code.
CheckStatus(status) == IF status = SUCCESS THEN "ok" ELSE status

\* --------------------------------------------------------- type dispatch
SURFACE_TYPE_TO_CLASS ==
    [tag \in {"IMAGE", "PDF", "SVG", "RECORDING"} |->
        CASE tag = "IMAGE" -> "ImageSurface"
          [] tag = "PDF" -> "PDFSurface"
          [] tag = "SVG" -> "SVGSurface"
          [] tag = "RECORDING" -> "RecordingSurface"]

PATTERN_TYPE_TO_CLASS ==
    [tag \in {"SOLID", "SURFACE", "LINEAR", "RADIAL"} |->
        CASE tag = "SOLID" -> "SolidPattern"
          [] tag = "SURFACE" -> "SurfacePattern"
          [] tag = "LINEAR" -> "LinearGradient"
          [] tag = "RADIAL" -> "RadialGradient"]

\* dict.get(key, default)
DictGet(table, key, default) == IF key \in DOMAIN table THEN table[key] ELSE default

\* mutant: SURFACE_TYPE_TO_CLASS[tag], which raises KeyError for a tag not in the table
SurfaceClassOf_subscript(tag) ==
    IF tag \in DOMAIN SURFACE_TYPE_TO_CLASS THEN SURFACE_TYPE_TO_CLASS[tag] ELSE "KeyError"

SurfaceClassOf(tag) == DictGet(SURFACE_TYPE_TO_CLASS, tag, "Surface")
PatternClassOf(tag) == DictGet(PATTERN_TYPE_TO_CLASS, tag, "Pattern")

\* the type tag cairo gives the object made by each variant's constructor
CtorTag(cls) ==
    CASE cls = "ImageSurface" -> "IMAGE"
      [] cls = "PDFSurface" -> "PDF"
      [] cls = "PSSurface" -> "PS"
      [] cls = "SVGSurface" -> "SVG"
      [] cls = "RecordingSurface" -> "RECORDING"
      [] cls = "SolidPattern" -> "SOLID"
      [] cls = "SurfacePattern" -> "SURFACE"
      [] cls = "LinearGradient" -> "LINEAR"
      [] cls = "RadialGradient" -> "RADIAL"

StreamClasses == {"PDFSurface", "PSSurface", "SVGSurface"}
PlainPatternClasses == {"SolidPattern", "LinearGradient", "RadialGradient"}

\* -------------------------------------------------------------- KeepAlive
\* save(): self.instances.add(self)
KeepAlive_save(inst, b) == inst \cup {b}

\* mutant: the callback leaves the set as it is
KeepAlive_remove_nothing(inst, b) == inst

\* the destroy callback: self.instances.remove(self)
KeepAlive_remove(inst, b) == inst \ {b}

\* _make_write_func(file_obj): ffi.NULL for None, else a callback
\* mutant: a callback is made for None as well
MakeWriteFunc_no_null(target) == "adapter"

MakeWriteFunc(target) == IF target = "None" THEN "NULL" ELSE "adapter"

\* `target_keep_alive not in (None, ffi.NULL)`
NeedsKeepAlive(tka) == tka \notin {"None", "NULL"}

\* --------------------------------------------------- the foreign library
\* reference counts after one cairo_*_destroy(h); a pattern that is freed
\* drops the reference it holds on its surface
RcAfterDestroy(h) ==
    LET r1 == [rc EXCEPT ![h] = @ - 1]
    IN IF r1[h] = 0 /\ hsrc[h] # NULL THEN [r1 EXCEPT ![hsrc[h]] = @ - 1] ELSE r1

\* bundles registered with a destroy function on handle h
AttachedTo(h) ==
    ({userdata[h]} \cup {mime[h][t] : t \in MimeTypes}) \ {NULL}

\* handles whose native storage is released when the counts change to r
FreedBy(r) == {g \in Handles : rc[g] > 0 /\ r[g] <= 0}

\* bundles whose destroy function becomes due when the counts change to r
DueAfter(r) == UNION {AttachedTo(h) : h \in FreedBy(r)}

\* cairo_surface_destroy(h) / cairo_pattern_destroy(h): one reference less;
\* at zero the object is gone and the destroy functions of its user data
\* and mime data are due
ForeignDestroy(h) ==
    LET r == RcAfterDestroy(h)
        gone == FreedBy(r)
    IN /\ rc' = r
       /\ pending' = pending \cup DueAfter(r)
       /\ htype' = [g \in Handles |-> IF g \in gone THEN "FREED" ELSE htype[g]]
       /\ hstatus' = [g \in Handles |-> IF g \in gone THEN SUCCESS ELSE hstatus[g]]
       /\ hsrc' = [g \in Handles |-> IF g \in gone THEN NULL ELSE hsrc[g]]
       /\ hretains' = [g \in Handles |-> IF g \in gone THEN "none" ELSE hretains[g]]
       /\ userdata' = [g \in Handles |-> IF g \in gone THEN NULL ELSE userdata[g]]
       /\ mime' = [g \in Handles |-> IF g \in gone THEN [t \in MimeTypes |-> NULL] ELSE mime[g]]

\* --------------------------------------------------------- Surface.__init__
InitResult(st, tka, att) ==
    IF CheckStatus(st) # "ok" THEN CheckStatus(st)
    ELSE IF NeedsKeepAlive(tka) THEN CheckStatus(att) ELSE "ok"

InitCalls(st, tka) ==
    IF CheckStatus(st) = "ok" /\ NeedsKeepAlive(tka)
    THEN <<"gc", "status", "set_user_data">> ELSE <<"gc", "status">>

InitBundle(st, tka) ==
    IF CheckStatus(st) = "ok" /\ NeedsKeepAlive(tka) THEN FreshB ELSE 0

SetWrapper(w, ptr, cls, via, ok) ==
    /\ wptr' = [wptr EXCEPT ![w] = ptr]
    /\ wclass' = [wclass EXCEPT ![w] = cls]
    /\ wvia' = [wvia EXCEPT ![w] = via]
    /\ wstate' = [wstate EXCEPT ![w] = IF ok THEN "live" ELSE "failed"]

\* mutant: save() is never called
Surface_init_no_save(w, ptr, cls, via, st, tka, att) ==
    /\ NeedsKeepAlive(tka) => HasFreshB
    /\ SetWrapper(w, ptr, cls, via, InitResult(st, tka, att) = "ok")
    /\ IF CheckStatus(st) = "ok" /\ NeedsKeepAlive(tka)
       THEN /\ kobjects' = [kobjects EXCEPT ![FreshB] = tka]
            /\ kattach' = [kattach EXCEPT ![FreshB] = IF att = SUCCESS THEN "ok" ELSE "failed"]
            /\ IF CheckStatus(att) = "ok"
               THEN /\ userdata' = [userdata EXCEPT ![ptr] = FreshB]
                    /\ UNCHANGED <<instances, saves>>
               ELSE UNCHANGED <<userdata, instances, saves>>
       ELSE UNCHANGED <<kobjects, kattach, userdata, instances, saves>>

\* mutant: the pointer is given to ffi.gc only after the status check passed
Surface_init_gc_after_check(w, ptr, cls, via, st, tka, att) ==
    /\ NeedsKeepAlive(tka) => HasFreshB
    /\ SetWrapper(w, IF CheckStatus(st) = "ok" THEN ptr ELSE NULL, cls, via,
                  InitResult(st, tka, att) = "ok")
    /\ IF CheckStatus(st) = "ok" /\ NeedsKeepAlive(tka)
       THEN /\ kobjects' = [kobjects EXCEPT ![FreshB] = tka]
            /\ kattach' = [kattach EXCEPT ![FreshB] = IF att = SUCCESS THEN "ok" ELSE "failed"]
            /\ IF CheckStatus(att) = "ok"
               THEN /\ userdata' = [userdata EXCEPT ![ptr] = FreshB]
                    /\ instances' = KeepAlive_save(instances, FreshB)
                    /\ saves' = [saves EXCEPT ![FreshB] = @ + 1]
               ELSE UNCHANGED <<userdata, instances, saves>>
       ELSE UNCHANGED <<kobjects, kattach, userdata, instances, saves>>

Surface_init(w, ptr, cls, via, st, tka, att) ==
    /\ NeedsKeepAlive(tka) => HasFreshB
    /\ SetWrapper(w, ptr, cls, via, InitResult(st, tka, att) = "ok")
    /\ IF CheckStatus(st) = "ok" /\ NeedsKeepAlive(tka)
       THEN /\ kobjects' = [kobjects EXCEPT ![FreshB] = tka]
            /\ kattach' = [kattach EXCEPT ![FreshB] = IF att = SUCCESS THEN "ok" ELSE "failed"]
            /\ IF CheckStatus(att) = "ok"
               THEN /\ userdata' = [userdata EXCEPT ![ptr] = FreshB]
                    /\ instances' = KeepAlive_save(instances, FreshB)
                    /\ saves' = [saves EXCEPT ![FreshB] = @ + 1]
               ELSE UNCHANGED <<userdata, instances, saves>>
       ELSE UNCHANGED <<kobjects, kattach, userdata, instances, saves>>

\* Pattern.__init__
Pattern_init(w, ptr, cls, via, st) ==
    SetWrapper(w, ptr, cls, via, CheckStatus(st) = "ok")

\* a cairo constructor entry point: a new object with one reference
ForeignCreate(h, tag, st, src, ret) ==
    /\ rc' = IF src # NULL /\ st = SUCCESS
             THEN [rc EXCEPT ![h] = 1, ![src] = @ + 1]
             ELSE [rc EXCEPT ![h] = 1]
    /\ htype' = [htype EXCEPT ![h] = tag]
    /\ hstatus' = [hstatus EXCEPT ![h] = st]
    /\ hsrc' = [hsrc EXCEPT ![h] = IF st = SUCCESS THEN src ELSE NULL]
    /\ hretains' = [hretains EXCEPT ![h] = IF st = SUCCESS THEN ret ELSE "none"]

AttachOutcomes(tka) == IF NeedsKeepAlive(tka) THEN Statuses ELSE {SUCCESS}

\* --------------------------------------------------------- constructors
\* mutant: the buffer is not passed on as target_keep_alive
ImageSurface_init_no_keep_alive(data, st, att) ==
    /\ HasFreshH /\ HasFreshW
    /\ ForeignCreate(FreshH, "IMAGE", st, NULL, IF data = "None" THEN "none" ELSE data)
    /\ Surface_init(FreshW, FreshH, "ImageSurface", "ctor", st, "None", att)
    /\ Record([op |-> "ImageSurface", w |-> FreshW, ptr |-> FreshH, incref |-> FALSE,
               result |-> InitResult(st, data, att),
               calls |-> <<"create">> \o InitCalls(st, data),
               rcBefore |-> 0, b |-> InitBundle(st, data), cls |-> "none", arg |-> "none"])
    /\ UNCHANGED <<mime, wdestroys, kcaller, fired, pending>>

ImageSurface_init(data, st, att) ==
    /\ HasFreshH /\ HasFreshW
    /\ ForeignCreate(FreshH, "IMAGE", st, NULL, IF data = "None" THEN "none" ELSE data)
    /\ Surface_init(FreshW, FreshH, "ImageSurface", "ctor", st, data, att)
    /\ Record([op |-> "ImageSurface", w |-> FreshW, ptr |-> FreshH, incref |-> FALSE,
               result |-> InitResult(st, data, att),
               calls |-> <<"create">> \o InitCalls(st, data),
               rcBefore |-> 0, b |-> InitBundle(st, data), cls |-> "none", arg |-> "none"])
    /\ UNCHANGED <<mime, wdestroys, kcaller, fired, pending>>

\* PDFSurface, PSSurface, SVGSurface
StreamSurface_init(cls, target, st, att) ==
    LET write_func == IF target \in {"fileobj", "None"} THEN MakeWriteFunc(target) ELSE "None"
    IN /\ HasFreshH /\ HasFreshW
       /\ ForeignCreate(FreshH, CtorTag(cls), st, NULL,
                        IF write_func = "adapter" THEN "adapter" ELSE "none")
       /\ Surface_init(FreshW, FreshH, cls, "ctor", st, write_func, att)
       /\ Record([op |-> cls, w |-> FreshW, ptr |-> FreshH, incref |-> FALSE,
                  result |-> InitResult(st, write_func, att),
                  calls |-> <<CASE write_func = "adapter" -> "create_for_stream(write_func)"
                                [] write_func = "NULL" -> "create_for_stream(NULL)"
                                [] OTHER -> "create">> \o InitCalls(st, write_func),
                  rcBefore |-> 0, b |-> InitBundle(st, write_func), cls |-> "none",
                  arg |-> target])
       /\ UNCHANGED <<mime, wdestroys, kcaller, fired, pending>>

RecordingSurface_init(st) ==
    /\ HasFreshH /\ HasFreshW
    /\ ForeignCreate(FreshH, "RECORDING", st, NULL, "none")
    /\ Surface_init(FreshW, FreshH, "RecordingSurface", "ctor", st, "None", SUCCESS)
    /\ Record([op |-> "RecordingSurface", w |-> FreshW, ptr |-> FreshH, incref |-> FALSE,
               result |-> InitResult(st, "None", SUCCESS),
               calls |-> <<"create">> \o InitCalls(st, "None"),
               rcBefore |-> 0, b |-> 0, cls |-> "none", arg |-> "none"])
    /\ UNCHANGED <<mime, wdestroys, kcaller, fired, pending>>

\* SolidPattern, LinearGradient, RadialGradient
PlainPattern_init(cls, st) ==
    /\ HasFreshH /\ HasFreshW
    /\ ForeignCreate(FreshH, CtorTag(cls), st, NULL, "none")
    /\ Pattern_init(FreshW, FreshH, cls, "ctor", st)
    /\ Record([op |-> cls, w |-> FreshW, ptr |-> FreshH, incref |-> FALSE,
               result |-> CheckStatus(st), calls |-> <<"create", "gc", "status">>,
               rcBefore |-> 0, b |-> 0, cls |-> "none", arg |-> "none"])
    /\ UNCHANGED <<userdata, mime, wdestroys, kvars>>

IsSurfaceWrapper(w) == wstate[w] = "live" /\ htype[wptr[w]] \in SurfaceTags
IsPatternWrapper(w) == wstate[w] = "live" /\ htype[wptr[w]] \in PatternTags

SurfacePattern_init(sw, st) ==
    /\ IsSurfaceWrapper(sw)
    /\ HasFreshH /\ HasFreshW
    /\ ForeignCreate(FreshH, "SURFACE", st, wptr[sw], "none")
    /\ Pattern_init(FreshW, FreshH, "SurfacePattern", "ctor", st)
    /\ Record([op |-> "SurfacePattern", w |-> FreshW, ptr |-> FreshH, incref |-> FALSE,
               result |-> CheckStatus(st), calls |-> <<"create", "gc", "status">>,
               rcBefore |-> 0, b |-> 0, cls |-> "none", arg |-> "none"])
    /\ UNCHANGED <<userdata, mime, wdestroys, kvars>>

\* ------------------------------------------------------- _from_pointer
\* mutant: the reference is taken before the null check
Surface_from_pointer_ref_first(opname, pointer, incref, rc1, ty1, st1, pre) ==
    IF pointer = NULL
    THEN /\ Record([op |-> opname, w |-> 0, ptr |-> NULL, incref |-> incref,
                    result |-> "ValueError",
                    calls |-> pre \o (IF incref THEN <<"reference">> ELSE <<>>), rcBefore |-> 0, b |-> 0, cls |-> "none", arg |-> "none"])
         /\ rc' = rc1 /\ htype' = ty1 /\ hstatus' = st1
         /\ UNCHANGED <<hsrc, hretains, userdata, mime, wvars, kvars>>
    ELSE /\ HasFreshW
         /\ rc' = IF incref THEN [rc1 EXCEPT ![pointer] = @ + 1] ELSE rc1
         /\ htype' = ty1 /\ hstatus' = st1
         /\ Surface_init(FreshW, pointer, SurfaceClassOf(ty1[pointer]), "from_pointer",
                         st1[pointer], "None", SUCCESS)
         /\ Record([op |-> opname, w |-> FreshW, ptr |-> pointer, incref |-> incref,
                    result |-> InitResult(st1[pointer], "None", SUCCESS),
                    calls |-> pre \o (IF incref THEN <<"reference">> ELSE <<>>)
                                  \o <<"get_type">> \o InitCalls(st1[pointer], "None"),
                    rcBefore |-> rc1[pointer], b |-> 0, cls |-> "none", arg |-> "none"])
         /\ UNCHANGED <<hsrc, hretains, mime, wdestroys, kcaller, fired, pending>>

\* mutant: incref is ignored, no reference is taken
Surface_from_pointer_no_ref(opname, pointer, incref, rc1, ty1, st1, pre) ==
    IF pointer = NULL
    THEN /\ Record([op |-> opname, w |-> 0, ptr |-> NULL, incref |-> incref,
                    result |-> "ValueError", calls |-> pre, rcBefore |-> 0, b |-> 0, cls |-> "none", arg |-> "none"])
         /\ rc' = rc1 /\ htype' = ty1 /\ hstatus' = st1
         /\ UNCHANGED <<hsrc, hretains, userdata, mime, wvars, kvars>>
    ELSE /\ HasFreshW
         /\ rc' = rc1
         /\ htype' = ty1 /\ hstatus' = st1
         /\ Surface_init(FreshW, pointer, SurfaceClassOf(ty1[pointer]), "from_pointer",
                         st1[pointer], "None", SUCCESS)
         /\ Record([op |-> opname, w |-> FreshW, ptr |-> pointer, incref |-> incref,
                    result |-> InitResult(st1[pointer], "None", SUCCESS),
                    calls |-> pre \o <<"get_type">> \o InitCalls(st1[pointer], "None"),
                    rcBefore |-> rc1[pointer], b |-> 0, cls |-> "none", arg |-> "none"])
         /\ UNCHANGED <<hsrc, hretains, mime, wdestroys, kcaller, fired, pending>>

\* mutant: the variant's constructor path runs, with a buffer to keep alive
Surface_from_pointer_as_constructed(opname, pointer, incref, rc1, ty1, st1, pre) ==
    IF pointer = NULL
    THEN /\ Record([op |-> opname, w |-> 0, ptr |-> NULL, incref |-> incref,
                    result |-> "ValueError", calls |-> pre, rcBefore |-> 0, b |-> 0, cls |-> "none", arg |-> "none"])
         /\ rc' = rc1 /\ htype' = ty1 /\ hstatus' = st1
         /\ UNCHANGED <<hsrc, hretains, userdata, mime, wvars, kvars>>
    ELSE /\ HasFreshW
         /\ rc' = IF incref THEN [rc1 EXCEPT ![pointer] = @ + 1] ELSE rc1
         /\ htype' = ty1 /\ hstatus' = st1
         /\ Surface_init(FreshW, pointer, SurfaceClassOf(ty1[pointer]), "from_pointer",
                         st1[pointer], "buffer", SUCCESS)
         /\ Record([op |-> opname, w |-> FreshW, ptr |-> pointer, incref |-> incref,
                    result |-> InitResult(st1[pointer], "buffer", SUCCESS),
                    calls |-> pre \o (IF incref THEN <<"reference">> ELSE <<>>)
                                  \o <<"get_type">> \o InitCalls(st1[pointer], "buffer"),
                    rcBefore |-> rc1[pointer], b |-> InitBundle(st1[pointer], "buffer"),
                    cls |-> "none", arg |-> "none"])
         /\ UNCHANGED <<hsrc, hretains, mime, wdestroys, kcaller, fired, pending>>

\* mutant: the reference is taken only once the status check has passed
Surface_from_pointer_ref_after_check(opname, pointer, incref, rc1, ty1, st1, pre) ==
    IF pointer = NULL
    THEN /\ Record([op |-> opname, w |-> 0, ptr |-> NULL, incref |-> incref,
                    result |-> "ValueError", calls |-> pre, rcBefore |-> 0, b |-> 0, cls |-> "none", arg |-> "none"])
         /\ rc' = rc1 /\ htype' = ty1 /\ hstatus' = st1
         /\ UNCHANGED <<hsrc, hretains, userdata, mime, wvars, kvars>>
    ELSE /\ HasFreshW
         /\ rc' = IF incref /\ CheckStatus(st1[pointer]) = "ok"
                  THEN [rc1 EXCEPT ![pointer] = @ + 1] ELSE rc1
         /\ htype' = ty1 /\ hstatus' = st1
         /\ Surface_init(FreshW, pointer, SurfaceClassOf(ty1[pointer]), "from_pointer",
                         st1[pointer], "None", SUCCESS)
         /\ Record([op |-> opname, w |-> FreshW, ptr |-> pointer, incref |-> incref,
                    result |-> InitResult(st1[pointer], "None", SUCCESS),
                    calls |-> pre \o <<"get_type">> \o InitCalls(st1[pointer], "None")
                                  \o (IF incref /\ CheckStatus(st1[pointer]) = "ok"
                                      THEN <<"reference">> ELSE <<>>),
                    rcBefore |-> rc1[pointer], b |-> 0, cls |-> "none", arg |-> "none"])
         /\ UNCHANGED <<hsrc, hretains, mime, wdestroys, kcaller, fired, pending>>

\* Surface._from_pointer(pointer, incref), entered with the foreign state
\* (rc1, ty1, st1) its caller left; pre: foreign calls the caller made.
Surface_from_pointer(opname, pointer, incref, rc1, ty1, st1, pre) ==
    IF pointer = NULL
    THEN /\ Record([op |-> opname, w |-> 0, ptr |-> NULL, incref |-> incref,
                    result |-> "ValueError", calls |-> pre, rcBefore |-> 0, b |-> 0, cls |-> "none", arg |-> "none"])
         /\ rc' = rc1 /\ htype' = ty1 /\ hstatus' = st1
         /\ UNCHANGED <<hsrc, hretains, userdata, mime, wvars, kvars>>
    ELSE /\ HasFreshW
         /\ rc' = IF incref THEN [rc1 EXCEPT ![pointer] = @ + 1] ELSE rc1
         /\ htype' = ty1 /\ hstatus' = st1
         /\ Surface_init(FreshW, pointer, SurfaceClassOf(ty1[pointer]), "from_pointer",
                         st1[pointer], "None", SUCCESS)
         /\ Record([op |-> opname, w |-> FreshW, ptr |-> pointer, incref |-> incref,
                    result |-> InitResult(st1[pointer], "None", SUCCESS),
                    calls |-> pre \o (IF incref THEN <<"reference">> ELSE <<>>)
                                  \o <<"get_type">> \o InitCalls(st1[pointer], "None"),
                    rcBefore |-> rc1[pointer], b |-> 0, cls |-> "none", arg |-> "none"])
         /\ UNCHANGED <<hsrc, hretains, mime, wdestroys, kcaller, fired, pending>>

\* Pattern._from_pointer(pointer, incref)
Pattern_from_pointer(opname, pointer, incref, rc1, ty1, st1, pre) ==
    IF pointer = NULL
    THEN /\ Record([op |-> opname, w |-> 0, ptr |-> NULL, incref |-> incref,
                    result |-> "ValueError", calls |-> pre, rcBefore |-> 0, b |-> 0, cls |-> "none", arg |-> "none"])
         /\ rc' = rc1 /\ htype' = ty1 /\ hstatus' = st1
         /\ UNCHANGED <<hsrc, hretains, userdata, mime, wvars, kvars>>
    ELSE /\ HasFreshW
         /\ rc' = IF incref THEN [rc1 EXCEPT ![pointer] = @ + 1] ELSE rc1
         /\ htype' = ty1 /\ hstatus' = st1
         /\ Pattern_init(FreshW, pointer, PatternClassOf(ty1[pointer]), "from_pointer",
                         st1[pointer])
         /\ Record([op |-> opname, w |-> FreshW, ptr |-> pointer, incref |-> incref,
                    result |-> CheckStatus(st1[pointer]),
                    calls |-> pre \o (IF incref THEN <<"reference">> ELSE <<>>)
                                  \o <<"get_type", "gc", "status">>,
                    rcBefore |-> rc1[pointer], b |-> 0, cls |-> "none", arg |-> "none"])
         /\ UNCHANGED <<hsrc, hretains, userdata, mime, wdestroys, kvars>>

\* a direct call with a pointer that is the null sentinel
Surface_from_pointer_null(incref) ==
    Surface_from_pointer("Surface._from_pointer", NULL, incref, rc, htype, hstatus, <<>>)

Pattern_from_pointer_null(incref) ==
    Pattern_from_pointer("Pattern._from_pointer", NULL, incref, rc, htype, hstatus, <<>>)

\* create_similar, create_similar_image, create_for_rectangle: cairo makes a
\* new surface (one reference, handed over) which is wrapped with incref=False
SimilarTags(method) ==
    CASE method = "create_similar" -> SurfaceTags
      [] method = "create_similar_image" -> {"IMAGE"}
      [] method = "create_for_rectangle" -> {"SUBSURFACE"}

Surface_create_similar(sw, method, tag, st) ==
    /\ IsSurfaceWrapper(sw)
    /\ tag \in SimilarTags(method)
    /\ HasFreshH
    /\ Surface_from_pointer(method, FreshH, FALSE,
                            [rc EXCEPT ![FreshH] = 1],
                            [htype EXCEPT ![FreshH] = tag],
                            [hstatus EXCEPT ![FreshH] = st],
                            <<"create">>)

\* SurfacePattern.get_surface(): the pattern's surface is borrowed from cairo
\* and wrapped with incref=True
\* mutant: the borrowed surface is wrapped with incref=False
SurfacePattern_get_surface_no_incref(pw, st) ==
    /\ IsPatternWrapper(pw)
    /\ wclass[pw] = "SurfacePattern"
    /\ hsrc[wptr[pw]] # NULL
    /\ IF CheckStatus(st) # "ok"
       THEN /\ Record([op |-> "get_surface", w |-> 0, ptr |-> NULL, incref |-> TRUE,
                       result |-> CheckStatus(st), calls |-> <<"get_surface">>,
                       rcBefore |-> 0, b |-> 0, cls |-> "none", arg |-> "none"])
            /\ UNCHANGED <<hvars, wvars, kvars>>
       ELSE Surface_from_pointer("get_surface", hsrc[wptr[pw]], FALSE, rc, htype, hstatus,
                                 <<"get_surface">>)

SurfacePattern_get_surface(pw, st) ==
    /\ IsPatternWrapper(pw)
    /\ wclass[pw] = "SurfacePattern"
    /\ hsrc[wptr[pw]] # NULL
    /\ IF CheckStatus(st) # "ok"
       THEN /\ Record([op |-> "get_surface", w |-> 0, ptr |-> NULL, incref |-> TRUE,
                       result |-> CheckStatus(st), calls |-> <<"get_surface">>,
                       rcBefore |-> 0, b |-> 0, cls |-> "none", arg |-> "none"])
            /\ UNCHANGED <<hvars, wvars, kvars>>
       ELSE Surface_from_pointer("get_surface", hsrc[wptr[pw]], TRUE, rc, htype, hstatus,
                                 <<"get_surface">>)

\* Pattern._from_pointer on a pattern another holder keeps alive (incref=True)
Pattern_rewrap_borrowed(h) ==
    /\ rc[h] > 0 /\ htype[h] \in PatternTags
    /\ Pattern_from_pointer("Pattern._from_pointer", h, TRUE, rc, htype, hstatus, <<>>)

\* Pattern._from_pointer on a pattern cairo has just made (incref=False)
Pattern_rewrap_new(tag, st) ==
    /\ tag \in PatternTags \ {"SURFACE"}
    /\ HasFreshH
    /\ Pattern_from_pointer("Pattern._from_pointer", FreshH, FALSE,
                            [rc EXCEPT ![FreshH] = 1],
                            [htype EXCEPT ![FreshH] = tag],
                            [hstatus EXCEPT ![FreshH] = st],
                            <<"create">>)

\* ------------------------------------------------------------ set_mime_data
InFlight == {b \in Bundles : kcaller[b] # 0}

\* data is None: the foreign call only
\* mutant: the call takes the bundle of the data out of the registry itself
Surface_set_mime_data_none_unpins(w, t, st) ==
    /\ IsSurfaceWrapper(w)
    /\ IF CheckStatus(st) = "ok"
       THEN /\ mime' = [mime EXCEPT ![wptr[w]][t] = NULL]
            /\ pending' = pending \cup ({mime[wptr[w]][t]} \ {NULL})
            /\ instances' = instances \ {mime[wptr[w]][t]}
       ELSE UNCHANGED <<mime, pending, instances>>
    /\ Record([op |-> "set_mime_data", w |-> w, ptr |-> wptr[w], incref |-> FALSE,
               result |-> CheckStatus(st), calls |-> <<"set_mime_data">>,
               rcBefore |-> rc[wptr[w]], b |-> 0, cls |-> "none", arg |-> "None"])
    /\ UNCHANGED <<rc, htype, hstatus, hsrc, hretains, userdata, wvars,
                   kobjects, kcaller, kattach, saves, fired>>

Surface_set_mime_data_none(w, t, st) ==
    /\ IsSurfaceWrapper(w)
    /\ IF CheckStatus(st) = "ok"
       THEN /\ mime' = [mime EXCEPT ![wptr[w]][t] = NULL]
            /\ pending' = pending \cup ({mime[wptr[w]][t]} \ {NULL})
       ELSE UNCHANGED <<mime, pending>>
    /\ Record([op |-> "set_mime_data", w |-> w, ptr |-> wptr[w], incref |-> FALSE,
               result |-> CheckStatus(st), calls |-> <<"set_mime_data">>,
               rcBefore |-> rc[wptr[w]], b |-> 0, cls |-> "none", arg |-> "None"])
    /\ UNCHANGED <<rc, htype, hstatus, hsrc, hretains, userdata, wvars,
                   kobjects, kcaller, kattach, saves, fired, instances>>

\* ffi.buffer(data, length) over the foreign memory mem
FfiBuffer(mem, length) == SubSeq(mem, 1, length)

\* ffi.new('char[]', data): a copy of the bytes, followed by a zero byte
CharArray(data) == Append(data, 0)

\* length = len(data); data = ffi.new('char[]', data): what cairo is given
\* mutant: the length given to cairo is that of the copy
MimeEntry_length_of_copy(data) ==
    [data |-> data, mem |-> CharArray(data), length |-> Len(CharArray(data))]

MimeEntry(data) == [data |-> data, mem |-> CharArray(data), length |-> Len(data)]

\* data given: KeepAlive(data, mime_type), then the foreign call with its
\* closure; save() is the next statement of the same call
\* mutant: save() before the status of the foreign call is checked
Surface_set_mime_data_save_first(w, t, data, st) ==
    /\ IsSurfaceWrapper(w)
    /\ HasFreshB
    /\ Cardinality(InFlight) < MaxCalls
    /\ mdata' = [mdata EXCEPT ![FreshB] = MimeEntry(data)]
    /\ kobjects' = [kobjects EXCEPT ![FreshB] = "mimedata"]
    /\ kattach' = [kattach EXCEPT ![FreshB] = IF st = SUCCESS THEN "ok" ELSE "failed"]
    /\ instances' = KeepAlive_save(instances, FreshB)
    /\ saves' = [saves EXCEPT ![FreshB] = @ + 1]
    /\ IF CheckStatus(st) = "ok"
       THEN /\ mime' = [mime EXCEPT ![wptr[w]][t] = FreshB]
            /\ pending' = pending \cup ({mime[wptr[w]][t]} \ {NULL})
       ELSE UNCHANGED <<mime, pending>>
    /\ RecordCall([op |-> "set_mime_data", w |-> w, ptr |-> wptr[w], incref |-> FALSE,
                   result |-> CheckStatus(st), calls |-> <<"set_mime_data">>,
                   rcBefore |-> rc[wptr[w]], b |-> FreshB, cls |-> "none", arg |-> "data"])
    /\ UNCHANGED <<iovars, cmem, call>>
    /\ UNCHANGED <<rc, htype, hstatus, hsrc, hretains, userdata, wvars, kcaller, fired>>

Surface_set_mime_data_attach(w, t, data, st) ==
    /\ IsSurfaceWrapper(w)
    /\ HasFreshB
    /\ Cardinality(InFlight) < MaxCalls
    /\ mdata' = [mdata EXCEPT ![FreshB] = MimeEntry(data)]
    /\ kobjects' = [kobjects EXCEPT ![FreshB] = "mimedata"]
    /\ kattach' = [kattach EXCEPT ![FreshB] = IF st = SUCCESS THEN "ok" ELSE "failed"]
    /\ IF CheckStatus(st) = "ok"
       THEN /\ mime' = [mime EXCEPT ![wptr[w]][t] = FreshB]
            /\ pending' = pending \cup ({mime[wptr[w]][t]} \ {NULL})
            /\ kcaller' = [kcaller EXCEPT ![FreshB] = w]
       ELSE UNCHANGED <<mime, pending, kcaller>>
    /\ RecordCall([op |-> "set_mime_data", w |-> w, ptr |-> wptr[w], incref |-> FALSE,
                   result |-> CheckStatus(st), calls |-> <<"set_mime_data">>,
                   rcBefore |-> rc[wptr[w]], b |-> FreshB, cls |-> "none", arg |-> "data"])
    /\ UNCHANGED <<iovars, cmem, call>>
    /\ UNCHANGED <<rc, htype, hstatus, hsrc, hretains, userdata, wvars,
                   saves, fired, instances>>

Surface_set_mime_data_save(b) ==
    /\ kcaller[b] # 0
    /\ instances' = KeepAlive_save(instances, b)
    /\ saves' = [saves EXCEPT ![b] = @ + 1]
    /\ kcaller' = [kcaller EXCEPT ![b] = 0]
    /\ Record([op |-> "save", w |-> kcaller[b], ptr |-> wptr[kcaller[b]], incref |-> FALSE,
               result |-> "ok", calls |-> <<>>, rcBefore |-> rc[wptr[kcaller[b]]], b |-> b, cls |-> "none", arg |-> "none"])
    /\ UNCHANGED <<hvars, wvars, kobjects, kattach, fired, pending>>

\* get_mime_data(mime_type) on handle h: cairo returns the address and the
\* length it was given, or NULL; ffi.buffer(address, length) or None
Surface_get_mime_data(h, t) ==
    IF mime[h][t] = NULL THEN [none |-> TRUE, bytes |-> <<>>]
    ELSE [none |-> FALSE,
          bytes |-> FfiBuffer(mdata[mime[h][t]].mem, mdata[mime[h][t]].length)]

\* ----------------------------------------------------------------- teardown
\* the ffi.gc finalizer of self._pointer: cairo_surface_destroy or
\* cairo_pattern_destroy, once, when the wrapper is reclaimed
\* mutant: the finalizer stays armed after it has run
Teardown_finalizer_rearmed(w) ==
    /\ wstate[w] \in {"live", "failed"}
    /\ \A b \in Bundles : kcaller[b] # w
    /\ ForeignDestroy(wptr[w])
    /\ wdestroys' = [wdestroys EXCEPT ![w] = @ + 1]
    /\ Record([op |-> "teardown", w |-> w, ptr |-> wptr[w], incref |-> FALSE,
               result |-> "ok", calls |-> <<"destroy">>, rcBefore |-> rc[wptr[w]], b |-> 0,
               cls |-> wclass[w], arg |-> "none"])
    /\ UNCHANGED <<wstate, wclass, wvia, wptr, kobjects, kcaller, kattach, saves, fired, instances>>

Teardown(w) ==
    /\ wstate[w] \in {"live", "failed"}
    /\ \A b \in Bundles : kcaller[b] # w
    /\ ForeignDestroy(wptr[w])
    /\ wdestroys' = [wdestroys EXCEPT ![w] = @ + 1]
    /\ wstate' = [wstate EXCEPT ![w] = "dead"]
    /\ wclass' = [wclass EXCEPT ![w] = "none"]
    /\ wvia' = [wvia EXCEPT ![w] = "none"]
    /\ Record([op |-> "teardown", w |-> w, ptr |-> wptr[w], incref |-> FALSE,
               result |-> "ok", calls |-> <<"destroy">>, rcBefore |-> rc[wptr[w]], b |-> 0,
               cls |-> wclass[w], arg |-> "none"])
    /\ UNCHANGED <<wptr, kobjects, kcaller, kattach, saves, fired, instances>>

\* cairo invokes the destroy callback of a bundle: lambda _: instances.remove(self)
ReleaseCallback(b) ==
    /\ b \in pending
    /\ pending' = pending \ {b}
    /\ IF b \in instances
       THEN /\ instances' = KeepAlive_remove(instances, b)
            /\ fired' = [fired EXCEPT ![b] = "removed"]
       ELSE /\ fired' = [fired EXCEPT ![b] = "KeyError"]
            /\ UNCHANGED instances
    /\ Record([op |-> "release_callback", w |-> 0, ptr |-> NULL, incref |-> FALSE,
               result |-> IF b \in instances THEN "ok" ELSE "KeyError",
               calls |-> <<>>, rcBefore |-> 0, b |-> b, cls |-> "none", arg |-> "none"])
    /\ UNCHANGED <<hvars, wvars, kobjects, kcaller, kattach, saves>>

\* ------------------------------------------------------- stream adapters
Min(a, b) == IF a < b THEN a ELSE b

\* file_obj.read(length) returning the next k bytes of the source
FileRead(content, k) ==
    [string |-> SubSeq(content, 1, k), rest |-> SubSeq(content, k + 1, Len(content))]

\* io.BytesIO(content).read(length)
BytesIO_read(content, length) == FileRead(content, Min(length, Len(content)))

\* foreign memory of `length` bytes that nothing has written yet
Unwritten(length) == [i \in 1..length |-> -1]

\* ffi.buffer(data, length)[:n] = string
SliceAssign(buf, n, string) ==
    [i \in 1..Len(buf) |-> IF i <= n THEN string[i] ELSE buf[i]]

\* mutant: a chunk longer than the request is copied whole, past the end of
\* the destination
read_func_overrun(string, raised, dest, length) ==
    IF raised THEN [ret |-> READ_ERROR, dest |-> dest]
    ELSE IF Len(string) < length THEN [ret |-> READ_ERROR, dest |-> dest]
    ELSE [ret |-> SUCCESS, dest |-> string]

\* mutant: a short chunk is copied and reported as success
read_func_partial(string, raised, dest, length) ==
    IF raised \/ Len(string) > length
    THEN [ret |-> READ_ERROR, dest |-> dest]
    ELSE [ret |-> SUCCESS, dest |-> SliceAssign(dest, Len(string), string)]

\* mutant: the chunk is copied from its second byte on
read_func_shifted(string, raised, dest, length) ==
    IF raised \/ Len(string) # length
    THEN [ret |-> READ_ERROR, dest |-> dest]
    ELSE [ret |-> SUCCESS,
          dest |-> SliceAssign(dest, Len(string), Tail(string) \o SubSeq(string, 1, 1))]

\* mutant: success is reported without copying the chunk
read_func_no_copy(string, raised, dest, length) ==
    IF raised \/ Len(string) # length
    THEN [ret |-> READ_ERROR, dest |-> dest]
    ELSE [ret |-> SUCCESS, dest |-> dest]

\* read_func(closure, data, length) made by _make_read_func, where string is
\* what file_obj.read(length) returned (raised: it raised instead) and dest
\* the memory at data. A string longer than length does not fit the slice:
\* the assignment raises and the callback's error value is returned.
read_func(string, raised, dest, length) ==
    IF raised THEN [ret |-> READ_ERROR, dest |-> dest]
    ELSE IF Len(string) < length THEN [ret |-> READ_ERROR, dest |-> dest]
    ELSE IF Len(string) # length THEN [ret |-> READ_ERROR, dest |-> dest]
    ELSE [ret |-> SUCCESS, dest |-> SliceAssign(dest, Len(string), string)]

\* mutant: the whole foreign memory is forwarded, whatever length says
write_func_whole(accepted, mem, length, raised) ==
    [arg |-> mem,
     ret |-> IF raised THEN WRITE_ERROR ELSE SUCCESS,
     sink |-> IF raised THEN accepted ELSE accepted \o mem]

\* mutant: success is reported whatever the sink did
write_func_always_ok(accepted, mem, length, raised) ==
    [arg |-> FfiBuffer(mem, length),
     ret |-> SUCCESS,
     sink |-> IF raised THEN accepted ELSE accepted \o FfiBuffer(mem, length)]

\* the callback made by _make_write_func: file_obj.write(ffi.buffer(data,
\* length)) on a sink that has accepted `accepted`; raised: the write raised
\* and the callback's error value is returned
write_func(accepted, mem, length, raised) ==
    [arg |-> FfiBuffer(mem, length),
     ret |-> IF raised THEN WRITE_ERROR ELSE SUCCESS,
     sink |-> IF raised THEN accepted ELSE accepted \o FfiBuffer(mem, length)]

RecordStream(r) ==
    /\ RecordCall(r)
    /\ UNCHANGED <<mdata, call>>

\* cairo invokes the read adapter for `length` bytes; the source returns its
\* next k bytes or raises
read_func_call(length, k, raised) ==
    /\ Len(adapter.reads) + Len(adapter.writes) < MaxIO
    /\ LET f == FileRead(source, IF raised THEN 0 ELSE k)
           r == read_func(f.string, raised, Unwritten(length), length)
       IN /\ source' = f.rest
          /\ adapter' = [adapter EXCEPT !.reads =
                 Append(@, [length |-> length, string |-> f.string, raised |-> raised,
                            before |-> Unwritten(length), dest |-> r.dest, ret |-> r.ret])]
    /\ RecordStream([NoOp EXCEPT !.op = "read_func"])
    /\ UNCHANGED <<hvars, wvars, kvars, hpix, sink, png, xfer, cmem>>

\* cairo invokes the write adapter with `length` bytes at mem; cairo stops
\* using a stream whose callback has reported an error
write_func_call(mem, length, raised) ==
    /\ Len(adapter.reads) + Len(adapter.writes) < MaxIO
    /\ \A i \in DOMAIN adapter.writes : adapter.writes[i].ret = SUCCESS
    /\ LET r == write_func(sink, mem, length, raised)
       IN /\ sink' = r.sink
          /\ adapter' = [adapter EXCEPT !.writes =
                 Append(@, [mem |-> mem, length |-> length, raised |-> raised,
                            arg |-> r.arg, ret |-> r.ret])]
    /\ RecordStream([NoOp EXCEPT !.op = "write_func"])
    /\ UNCHANGED <<hvars, wvars, kvars, hpix, source, png, xfer>>
    /\ cmem' = Append(cmem, mem)

\* after a write callback has returned, cairo reuses or frees the memory it
\* passed: the memory of invocation i comes to hold any other content
ForeignOverwrite(i, content) ==
    /\ i \in DOMAIN cmem
    /\ Len(content) = Len(cmem[i])
    /\ content # cmem[i]
    /\ cmem' = [cmem EXCEPT ![i] = content]
    /\ RecordCall([NoOp EXCEPT !.op = "foreign_overwrite"])
    /\ UNCHANGED <<hvars, wvars, kvars, iovars, mdata, call>>

\* what the object given to file_obj.write in invocation i holds now:
\* ffi.buffer(data, length) refers to the foreign memory, it is no copy
RetainedObject(i) == FfiBuffer(cmem[i], adapter.writes[i].length)

\* ------------------------------------------------------------ PNG streams
\* cairo's PNG writer and reader: the colour of an ARGB32 pixel is stored
\* without the alpha premultiplication, rounded to the nearest value
Unpremultiply(q) ==
    <<q[1], IF q[1] = 0 THEN 0 ELSE (q[2] * MaxAlpha + q[1] \div 2) \div q[1]>>
Premultiply(q) == <<q[1], (q[1] * q[2] + MaxAlpha \div 2) \div MaxAlpha>>

PngSignature == 137
PngEnd == 130
PixelBytes == 2

\* the buffers cairo hands to the write callback for one image: signature,
\* header (the number of pixels), one buffer per pixel, end marker
PngChunks(img) ==
    <<<<PngSignature>>, <<Len(img)>>>> \o [i \in 1..Len(img) |-> Unpremultiply(img[i])]
        \o <<<<PngEnd>>>>

\* cairo's output stream: one callback invocation per buffer, none after an
\* invocation that reported an error; the failAt-th write of the sink raises
RECURSIVE StreamWrite(_, _, _, _)
StreamWrite(chunks, accepted, failAt, n) ==
    IF chunks = <<>> THEN [status |-> SUCCESS, sink |-> accepted, calls |-> <<>>]
    ELSE LET r == write_func(accepted, Head(chunks), Len(Head(chunks)), n = failAt)
         IN IF r.ret # SUCCESS
            THEN [status |-> r.ret, sink |-> r.sink, calls |-> <<r>>]
            ELSE LET rest == StreamWrite(Tail(chunks), r.sink, failAt, n + 1)
                 IN [status |-> rest.status, sink |-> rest.sink, calls |-> <<r>> \o rest.calls]

\* one request of cairo's PNG reader through the read callback of a BytesIO
CairoRead(content, length) ==
    LET f == BytesIO_read(content, length)
        r == read_func(f.string, FALSE, Unwritten(length), length)
    IN [ret |-> r.ret, dest |-> r.dest, string |-> f.string, rest |-> f.rest]

RECURSIVE PngReadRows(_, _)
PngReadRows(content, n) ==
    IF n = 0 THEN [status |-> SUCCESS, img |-> <<>>, rest |-> content, calls |-> <<>>]
    ELSE LET r == CairoRead(content, PixelBytes)
         IN IF r.ret # SUCCESS
            THEN [status |-> r.ret, img |-> <<>>, rest |-> r.rest, calls |-> <<r>>]
            ELSE LET more == PngReadRows(r.rest, n - 1)
                 IN [status |-> more.status,
                     img |-> IF more.status = SUCCESS
                             THEN <<Premultiply(r.dest)>> \o more.img ELSE <<>>,
                     rest |-> more.rest, calls |-> <<r>> \o more.calls]

\* cairo_image_surface_create_from_png_stream reading `content`: the status
\* of the surface it returns, its pixels and the callback invocations made
PngRead(content) ==
    LET sig == CairoRead(content, 1)
        hdr == CairoRead(sig.rest, 1)
        rows == PngReadRows(hdr.rest, hdr.dest[1])
        end == CairoRead(rows.rest, 1)
        Failed(st, cs) == [status |-> st, img |-> <<>>, calls |-> cs]
    IN IF sig.ret # SUCCESS THEN Failed(sig.ret, <<sig>>)
       ELSE IF sig.dest # <<PngSignature>> THEN Failed("PNG_ERROR", <<sig>>)
       ELSE IF hdr.ret # SUCCESS THEN Failed(hdr.ret, <<sig, hdr>>)
       ELSE IF rows.status # SUCCESS THEN Failed(rows.status, <<sig, hdr>> \o rows.calls)
       ELSE IF end.ret # SUCCESS THEN Failed(end.ret, <<sig, hdr>> \o rows.calls \o <<end>>)
       ELSE IF end.dest # <<PngEnd>> THEN Failed("PNG_ERROR", <<sig, hdr>> \o rows.calls \o <<end>>)
       ELSE [status |-> SUCCESS, img |-> rows.img,
             calls |-> <<sig, hdr>> \o rows.calls \o <<end>>]

\* mutant: the status returned by cairo is dropped
Surface_write_to_png_unchecked(w, target, failAt, fst) ==
    /\ IsSurfaceWrapper(w)
    /\ htype[wptr[w]] = "IMAGE"
    /\ target = "None" => failAt = 0
    /\ target = "filename" => failAt = 0
    /\ target # "filename" => fst = SUCCESS
    /\ LET h == wptr[w]
           return_bytes == target = "None"
           out == IF hstatus[h] # SUCCESS
                  THEN [status |-> hstatus[h], sink |-> <<>>, calls |-> <<>>]
                  ELSE IF target \in {"None", "fileobj"}
                  THEN StreamWrite(PngChunks(hpix[h]), <<>>, failAt, 1)
                  ELSE [status |-> fst, sink |-> <<>>, calls |-> <<>>]
       IN /\ xfer' = out.calls
          /\ png' = IF return_bytes /\ CheckStatus(out.status) = "ok"
                    THEN [bytes |-> out.sink, of |-> h] ELSE png
          /\ RecordStream([NoOp EXCEPT !.op = "write_to_png", !.w = w, !.ptr = h,
                                      !.result = "ok",
                                      !.calls = IF target = "filename"
                                                THEN <<"write_to_png">>
                                                ELSE <<"write_to_png_stream">>])
    /\ UNCHANGED <<hvars, wvars, kvars, hpix, sink, source, adapter, cmem>>

\* Surface.write_to_png(target): target None (a BytesIO, whose value is
\* returned), an object with a write method whose failAt-th write raises
\* (0: none does), or a filename that cairo writes itself with status fst
Surface_write_to_png(w, target, failAt, fst) ==
    /\ IsSurfaceWrapper(w)
    /\ htype[wptr[w]] = "IMAGE"
    /\ target = "None" => failAt = 0
    /\ target = "filename" => failAt = 0
    /\ target # "filename" => fst = SUCCESS
    /\ LET h == wptr[w]
           return_bytes == target = "None"
           out == IF hstatus[h] # SUCCESS
                  THEN [status |-> hstatus[h], sink |-> <<>>, calls |-> <<>>]
                  ELSE IF target \in {"None", "fileobj"}
                  THEN StreamWrite(PngChunks(hpix[h]), <<>>, failAt, 1)
                  ELSE [status |-> fst, sink |-> <<>>, calls |-> <<>>]
       IN /\ xfer' = out.calls
          /\ png' = IF return_bytes /\ CheckStatus(out.status) = "ok"
                    THEN [bytes |-> out.sink, of |-> h] ELSE png
          /\ RecordStream([NoOp EXCEPT !.op = "write_to_png", !.w = w, !.ptr = h,
                                      !.result = CheckStatus(out.status),
                                      !.calls = IF target = "filename"
                                                THEN <<"write_to_png">>
                                                ELSE <<"write_to_png_stream">>])
    /\ UNCHANGED <<hvars, wvars, kvars, hpix, sink, source, adapter, cmem>>

\* ImageSurface.create_from_png(source): an io.BytesIO over the first n
\* bytes of the bytes write_to_png returned, or a filename whose file cairo
\* reads itself, with status fst and pixels fimg
ImageSurface_create_from_png(kind, n, fst, fimg) ==
    /\ HasFreshH /\ HasFreshW
    /\ kind = "stream" => (fst = SUCCESS /\ fimg = <<>>)
    /\ kind = "filename" => (n = 0 /\ (fst = SUCCESS <=> fimg # <<>>))
    /\ LET in == IF kind = "stream" THEN PngRead(SubSeq(png.bytes, 1, n))
                 ELSE [status |-> fst, img |-> fimg, calls |-> <<>>]
       IN /\ ForeignCreate(FreshH, "IMAGE", in.status, NULL, "none")
          /\ Surface_init(FreshW, FreshH, "ImageSurface", "ctor", in.status, "None", SUCCESS)
          /\ hpix' = [hpix EXCEPT ![FreshH] = in.img]
          /\ xfer' = in.calls
          /\ RecordStream([NoOp EXCEPT !.op = "create_from_png", !.w = FreshW, !.ptr = FreshH,
                                      !.result = InitResult(in.status, "None", SUCCESS),
                                      !.arg = IF kind = "filename" THEN "filename"
                                              ELSE IF n = Len(png.bytes) THEN "stream"
                                              ELSE "truncated stream",
                                      !.calls = <<IF kind = "stream"
                                                  THEN "create_from_png_stream"
                                                  ELSE "create_from_png">>
                                                \o InitCalls(in.status, "None")])
    /\ UNCHANGED <<mime, wdestroys, kcaller, fired, pending, sink, source, adapter, png, cmem>>

\* ------------------------------------------------------ mutating methods
\* methods that change the foreign object, by the class that defines them
SurfaceMethods ==
    {"set_device_offset", "set_fallback_resolution", "mark_dirty", "mark_dirty_rectangle",
     "show_page", "copy_page", "flush", "finish"}
PDFSurfaceMethods == {"set_size", "restrict_to_version"}
PSSurfaceMethods ==
    {"dsc_comment", "dsc_begin_setup", "dsc_begin_page_setup", "set_eps", "set_size",
     "restrict_to_level"}
SVGSurfaceMethods == {"restrict_to_version"}
PatternMethods == {"set_extend", "set_filter", "set_matrix"}
GradientMethods == {"add_color_stop_rgba", "add_color_stop_rgb"}

MethodsOf(cls) ==
    CASE cls = "PDFSurface" -> SurfaceMethods \cup PDFSurfaceMethods
      [] cls = "PSSurface" -> SurfaceMethods \cup PSSurfaceMethods
      [] cls = "SVGSurface" -> SurfaceMethods \cup SVGSurfaceMethods
      [] cls \in {"Surface", "ImageSurface", "RecordingSurface"} -> SurfaceMethods
      [] cls \in {"LinearGradient", "RadialGradient"} -> PatternMethods \cup GradientMethods
      [] cls \in {"Pattern", "SolidPattern", "SurfacePattern"} -> PatternMethods
      [] OTHER -> {}

\* the methods whose body ends with self._check_status() after the foreign call
StatusChecked ==
    SurfaceMethods \cup PDFSurfaceMethods \cup PSSurfaceMethods \cup SVGSurfaceMethods
        \cup PatternMethods \cup GradientMethods

\* mutant: the method returns without looking at the status
Mutate_result_unchecked(op, after) == "ok"

\* what the method does once the foreign call has returned
Mutate_result(op, after) == IF op \in StatusChecked THEN CheckStatus(after) ELSE "ok"

\* wrapper.op(...): the foreign call leaves the object with status st, or
\* with the error it already had (an error status is never cleared)
Mutate(w, op, st) ==
    /\ wstate[w] = "live"
    /\ op \in MethodsOf(wclass[w])
    /\ LET h == wptr[w]
           after == IF hstatus[h] = SUCCESS THEN st ELSE hstatus[h]
       IN /\ hstatus' = [hstatus EXCEPT ![h] = after]
          /\ Record([NoOp EXCEPT !.op = op, !.w = w, !.ptr = h,
                                !.result = Mutate_result(op, after),
                                !.calls = IF op \in StatusChecked
                                          THEN <<op, "status">> ELSE <<op>>])
    /\ UNCHANGED <<rc, htype, hsrc, hretains, userdata, mime, wvars, kvars>>

\* ------------------------------------------------- version and level names
VersionFunctions ==
    {"PDFSurface.version_to_string", "PSSurface.ps_level_to_string",
     "SVGSurface.version_to_string"}

\* a null char pointer; a C string is its bytes followed by a zero byte
CNull == <<>>

\* the static tables of cairo_pdf_version_to_string ("PDF 1.4", "PDF 1.5"),
\* cairo_ps_level_to_string ("PS Level 2", "PS Level 3") and
\* cairo_svg_version_to_string ("SVG 1.1", "SVG 1.2"), as ASCII codes
ForeignNames(fn) ==
    CASE fn = "PDFSurface.version_to_string" ->
           << <<80, 68, 70, 32, 49, 46, 52, 0>>, <<80, 68, 70, 32, 49, 46, 53, 0>> >>
      [] fn = "PSSurface.ps_level_to_string" ->
           << <<80, 83, 32, 76, 101, 118, 101, 108, 32, 50, 0>>,
              <<80, 83, 32, 76, 101, 118, 101, 108, 32, 51, 0>> >>
      [] fn = "SVGSurface.version_to_string" ->
           << <<83, 86, 71, 32, 49, 46, 49, 0>>, <<83, 86, 71, 32, 49, 46, 50, 0>> >>

\* cairo_*_to_string(version): NULL for a value outside the table
ForeignToString(fn, version) ==
    IF version + 1 \in DOMAIN ForeignNames(fn) THEN ForeignNames(fn)[version + 1] ELSE CNull

\* ffi.string(c_string): the bytes before the first zero byte
FfiString(c) ==
    LET zeros == {i \in DOMAIN c : c[i] = 0}
        end == IF zeros = {} THEN Len(c) + 1 ELSE CHOOSE i \in zeros : \A j \in zeros : i <= j
    IN SubSeq(c, 1, end - 1)

\* bytes.decode('ascii'): the code points, if every byte is below 128
DecodeAscii(bytes) ==
    IF \A i \in DOMAIN bytes : bytes[i] < 128
    THEN [raised |-> "none", returns |-> bytes]
    ELSE [raised |-> "UnicodeDecodeError", args |-> <<>>]

\* mutant: the string is decoded without looking at the pointer
version_to_string_unchecked(fn, version) ==
    DecodeAscii(FfiString(ForeignToString(fn, version)))

\* version_to_string(version), ps_level_to_string(level)
version_to_string(fn, version) ==
    LET c_string == ForeignToString(fn, version)
    IN IF c_string = CNull THEN [raised |-> "ValueError", args |-> <<version>>]
       ELSE DecodeAscii(FfiString(c_string))

version_to_string_call(fn, version) ==
    /\ call' = [fn |-> fn, version |-> version, out |-> version_to_string(fn, version)]
    /\ RecordCall([NoOp EXCEPT !.op = fn, !.result = version_to_string(fn, version).raised,
                               !.calls = <<"to_string">>])
    /\ UNCHANGED <<hvars, wvars, kvars, iovars, mdata, cmem>>

\* ------------------------------------- ImageSurface over a caller's buffer
\* a buffer object: array.array has buffer_info(); len() counts items
BufferObjects ==
    [array : BOOLEAN, items : 0..MaxItems, itemsize : 1..MaxItemSize]

\* from_buffer(obj): the address and the length taken for the size in bytes
from_buffer(obj) ==
    IF obj.array
    THEN [address |-> "buffer", length |-> obj.items * obj.itemsize]
    ELSE [address |-> "buffer", length |-> obj.items]

\* ImageSurface(format, width, height, data=obj, stride=stride)
ImageSurface_init_data(obj, stride, height, st, att) ==
    IF from_buffer(obj).length < stride * height
    THEN /\ call' = [fn |-> "ImageSurface", obj |-> obj, stride |-> stride,
                     height |-> height, raised |-> "ValueError"]
         /\ RecordCall([NoOp EXCEPT !.op = "ImageSurface", !.result = "ValueError",
                                    !.arg = "buffer"])
         /\ UNCHANGED <<hvars, wvars, kvars, iovars, mdata, cmem>>
    ELSE /\ HasFreshH /\ HasFreshW
         /\ call' = [fn |-> "ImageSurface", obj |-> obj, stride |-> stride,
                     height |-> height, raised |-> "none"]
         /\ ForeignCreate(FreshH, "IMAGE", st, NULL, from_buffer(obj).address)
         /\ Surface_init(FreshW, FreshH, "ImageSurface", "ctor", st, "buffer", att)
         /\ RecordCall([NoOp EXCEPT !.op = "ImageSurface", !.w = FreshW, !.ptr = FreshH,
                                    !.result = InitResult(st, "buffer", att),
                                    !.calls = <<"create">> \o InitCalls(st, "buffer"),
                                    !.b = InitBundle(st, "buffer"), !.arg = "buffer"])
         /\ UNCHANGED <<mime, wdestroys, kcaller, fired, pending, iovars, mdata, cmem>>

\* -------------------------------------------------------------------- Next
Next ==
    \/ \E data \in {"None", "buffer"}, st \in Statuses :
         \E att \in AttachOutcomes(data) : ImageSurface_init(data, st, att)
    \/ \E cls \in StreamClasses, target \in StreamTargets, st \in Statuses, att \in Statuses :
         StreamSurface_init(cls, target, st, att)
    \/ \E st \in Statuses : RecordingSurface_init(st)
    \/ \E cls \in PlainPatternClasses, st \in Statuses : PlainPattern_init(cls, st)
    \/ \E sw \in Wrappers, st \in Statuses : SurfacePattern_init(sw, st)
    \/ \E incref \in BOOLEAN : Surface_from_pointer_null(incref)
    \/ \E incref \in BOOLEAN : Pattern_from_pointer_null(incref)
    \/ \E sw \in Wrappers, st \in Statuses :
         \E method \in {"create_similar", "create_similar_image", "create_for_rectangle"} :
           \E tag \in SurfaceTags : Surface_create_similar(sw, method, tag, st)
    \/ \E pw \in Wrappers, st \in Statuses : SurfacePattern_get_surface(pw, st)
    \/ \E h \in Handles : Pattern_rewrap_borrowed(h)
    \/ \E tag \in PatternTags, st \in Statuses : Pattern_rewrap_new(tag, st)
    \/ \E w \in Wrappers, t \in MimeTypes, st \in Statuses : Surface_set_mime_data_none(w, t, st)
    \/ \E w \in Wrappers, t \in MimeTypes, st \in Statuses :
         \E data \in {<<1>>} : Surface_set_mime_data_attach(w, t, data, st)
    \/ \E b \in Bundles : Surface_set_mime_data_save(b)
    \/ \E w \in Wrappers : Teardown(w)
    \/ \E b \in Bundles : ReleaseCallback(b)

Spec == Init /\ [][Next]_vars

\* construction, adoption and teardown of wrappers, each operation recorded
NextOps ==
    \/ \E data \in {"None", "buffer"}, st \in Statuses :
         \E att \in AttachOutcomes(data) : ImageSurface_init(data, st, att)
    \/ \E cls \in StreamClasses, target \in StreamTargets, st \in Statuses, att \in Statuses :
         StreamSurface_init(cls, target, st, att)
    \/ \E st \in Statuses : RecordingSurface_init(st)
    \/ \E cls \in PlainPatternClasses, st \in Statuses : PlainPattern_init(cls, st)
    \/ \E sw \in Wrappers, st \in Statuses : SurfacePattern_init(sw, st)
    \/ \E incref \in BOOLEAN : Surface_from_pointer_null(incref)
    \/ \E incref \in BOOLEAN : Pattern_from_pointer_null(incref)
    \/ \E sw \in Wrappers, st \in Statuses :
         \E method \in {"create_similar", "create_similar_image", "create_for_rectangle"} :
           \E tag \in SurfaceTags : Surface_create_similar(sw, method, tag, st)
    \/ \E pw \in Wrappers, st \in Statuses : SurfacePattern_get_surface(pw, st)
    \/ \E h \in Handles : Pattern_rewrap_borrowed(h)
    \/ \E tag \in PatternTags, st \in Statuses : Pattern_rewrap_new(tag, st)
    \/ \E w \in Wrappers : Teardown(w)
    \/ \E b \in Bundles : ReleaseCallback(b)

SpecOps == InitOps /\ [][NextOps]_vars

\* cairo calls a destroy function that is due: it does so before
\* cairo_surface_destroy or the call that replaced the data returns
SpecOpsFair == SpecOps /\ WF_vars(\E b \in Bundles : ReleaseCallback(b))

\* the stream adapters alone, over every source content
InitAdapter ==
    /\ rc = [h \in Handles |-> 0]
    /\ htype = [h \in Handles |-> "NONE"]
    /\ hstatus = [h \in Handles |-> SUCCESS]
    /\ hsrc = [h \in Handles |-> NULL]
    /\ hretains = [h \in Handles |-> "none"]
    /\ userdata = [h \in Handles |-> NULL]
    /\ mime = [h \in Handles |-> [t \in MimeTypes |-> NULL]]
    /\ wstate = [w \in Wrappers |-> "unused"]
    /\ wptr = [w \in Wrappers |-> NULL]
    /\ wclass = [w \in Wrappers |-> "none"]
    /\ wvia = [w \in Wrappers |-> "none"]
    /\ wdestroys = [w \in Wrappers |-> 0]
    /\ kobjects = [b \in Bundles |-> "none"]
    /\ kcaller = [b \in Bundles |-> 0]
    /\ kattach = [b \in Bundles |-> "none"]
    /\ saves = [b \in Bundles |-> 0]
    /\ fired = [b \in Bundles |-> "no"]
    /\ instances = {}
    /\ pending = {}
    /\ last = NoOp
    /\ tracking = TRUE
    /\ hpix = [h \in Handles |-> <<>>]
    /\ sink = <<>>
    /\ source \in Buffers
    /\ adapter = [reads |-> <<>>, writes |-> <<>>]
    /\ png = [bytes |-> <<>>, of |-> NULL]
    /\ xfer = <<>>
    /\ mdata = [b \in Bundles |-> NoData]
    /\ cmem = <<>>
    /\ call = NoCall

NextAdapter ==
    \/ \E length \in 0..MaxChunk, k \in 0..Len(source), raised \in BOOLEAN :
         read_func_call(length, k, raised)
    \/ \E mem \in Buffers, raised \in BOOLEAN :
         \E length \in 0..Len(mem) : write_func_call(mem, length, raised)
    \/ \E i \in 1..MaxIO, content \in Buffers : ForeignOverwrite(i, content)

SpecAdapter == InitAdapter /\ [][NextAdapter]_vars

\* PNG output and input of an image surface that has been constructed
InitPng ==
    /\ rc = [h \in Handles |-> IF h = 1 THEN 1 ELSE 0]
    /\ htype = [h \in Handles |-> IF h = 1 THEN "IMAGE" ELSE "NONE"]
    /\ hstatus = [h \in Handles |-> SUCCESS]
    /\ hsrc = [h \in Handles |-> NULL]
    /\ hretains = [h \in Handles |-> "none"]
    /\ userdata = [h \in Handles |-> NULL]
    /\ mime = [h \in Handles |-> [t \in MimeTypes |-> NULL]]
    /\ wstate = [w \in Wrappers |-> IF w = 1 THEN "live" ELSE "unused"]
    /\ wptr = [w \in Wrappers |-> IF w = 1 THEN 1 ELSE NULL]
    /\ wclass = [w \in Wrappers |-> IF w = 1 THEN "ImageSurface" ELSE "none"]
    /\ wvia = [w \in Wrappers |-> IF w = 1 THEN "ctor" ELSE "none"]
    /\ wdestroys = [w \in Wrappers |-> 0]
    /\ kobjects = [b \in Bundles |-> "none"]
    /\ kcaller = [b \in Bundles |-> 0]
    /\ kattach = [b \in Bundles |-> "none"]
    /\ saves = [b \in Bundles |-> 0]
    /\ fired = [b \in Bundles |-> "no"]
    /\ instances = {}
    /\ pending = {}
    /\ last = NoOp
    /\ tracking = TRUE
    /\ \E img \in Images : hpix = [h \in Handles |-> IF h = 1 THEN img ELSE <<>>]
    /\ sink = <<>>
    /\ source = <<>>
    /\ adapter = [reads |-> <<>>, writes |-> <<>>]
    /\ png = [bytes |-> <<>>, of |-> NULL]
    /\ xfer = <<>>
    /\ mdata = [b \in Bundles |-> NoData]
    /\ cmem = <<>>
    /\ call = NoCall

NextPng ==
    \/ \E w \in Wrappers, target \in StreamTargets, failAt \in 0..(MaxPixels + 3) :
         \E fst \in {SUCCESS, WRITE_ERROR} : Surface_write_to_png(w, target, failAt, fst)
    \/ \E kind \in {"stream", "filename"}, n \in 0..Len(png.bytes) :
         \E fst \in {SUCCESS, READ_ERROR}, fimg \in {<<>>} \cup {i \in Images : Len(i) = 1} :
           ImageSurface_create_from_png(kind, n, fst, fimg)

SpecPng == InitPng /\ [][NextPng]_vars

\* construction of wrappers and their mutating methods, each call recorded
NextMutate ==
    \/ \E data \in {"None", "buffer"}, st \in Statuses :
         \E att \in AttachOutcomes(data) : ImageSurface_init(data, st, att)
    \/ \E cls \in StreamClasses, target \in StreamTargets, st \in Statuses, att \in Statuses :
         StreamSurface_init(cls, target, st, att)
    \/ \E cls \in PlainPatternClasses, st \in Statuses : PlainPattern_init(cls, st)
    \/ \E w \in Wrappers, op \in StatusChecked, st \in Statuses : Mutate(w, op, st)
    \/ \E w \in Wrappers, t \in MimeTypes, st \in Statuses : Surface_set_mime_data_none(w, t, st)
    \/ \E w \in Wrappers, t \in MimeTypes, st \in Statuses :
         \E data \in {<<1>>} : Surface_set_mime_data_attach(w, t, data, st)
    \/ \E b \in Bundles : Surface_set_mime_data_save(b)

SpecMutate == InitOps /\ [][NextMutate]_vars

\* adoption of handles whose status an operation has changed meanwhile
NextRewrap ==
    \/ NextOps
    \/ \E w \in Wrappers, st \in Statuses : Mutate(w, "flush", st)

SpecRewrap == InitOps /\ [][NextRewrap]_vars

\* calls whose arguments are numbers: the names of versions and levels, and
\* image surfaces over buffers of every size
NextCalls ==
    \/ \E fn \in VersionFunctions, version \in (-1)..MaxVersion :
         version_to_string_call(fn, version)
    \/ \E obj \in BufferObjects, stride \in 1..MaxStride, height \in 0..MaxHeight :
         \E st \in Statuses, att \in Statuses : ImageSurface_init_data(obj, stride, height, st, att)
    \/ \E w \in Wrappers : Teardown(w)
    \/ \E b \in Bundles : ReleaseCallback(b)

SpecCalls == InitOps /\ [][NextCalls]_vars

\* bytes given to set_mime_data
MimeData == Buffers

\* attaching, reading back and removing MIME data of image surfaces; cairo
\* calls a destroy function that is due
NextMime ==
    \/ \E st \in Statuses : ImageSurface_init("None", st, SUCCESS)
    \/ \E w \in Wrappers, t \in MimeTypes, st \in Statuses : Surface_set_mime_data_none(w, t, st)
    \/ \E w \in Wrappers, t \in MimeTypes, st \in Statuses :
         \E data \in MimeData : Surface_set_mime_data_attach(w, t, data, st)
    \/ \E b \in Bundles : Surface_set_mime_data_save(b)
    \/ \E w \in Wrappers : Teardown(w)
    \/ \E b \in Bundles : ReleaseCallback(b)

SpecMime == InitOps /\ [][NextMime]_vars /\ WF_vars(\E b \in Bundles : ReleaseCallback(b))

\* ------------------------------------------------------------------ claims
Dead == {w \in Wrappers : wstate[w] = "dead"}
Holding == {w \in Wrappers : wstate[w] \in {"live", "failed"}}

\* local and foreign holders of one reference on h
Holders(h) ==
    Cardinality({w \in Holding : wptr[w] = h})
    + Cardinality({p \in Handles : rc[p] > 0 /\ hsrc[p] = h})

\* C1: every wrapper that has been torn down issued exactly one destroy call
\* for its handle and every wrapper not yet torn down issued none, so N
\* wrappers destroyed are N releases; the foreign count of a handle is the
\* number of its holders that have not released it yet.
C1_ExactlyOneRelease ==
    /\ \A w \in Wrappers : wdestroys[w] = (IF wstate[w] = "dead" THEN 1 ELSE 0)
    /\ \A h \in Handles : rc[h] = Holders(h)

C1_Witness ==
    /\ \A w \in Wrappers : wstate[w] = "dead" /\ wdestroys[w] = 1
    /\ \A h \in Handles : htype[h] = "FREED"

\* a wrapper became failed in this step: its constructor raised
ConstructionFailed(w) == wstate[w] = "unused" /\ wstate'[w] = "failed"

C2_Raised ==
    (last.w # 0 /\ last.result # "ok" /\ last.op # "teardown") =>
        /\ last.result \in ErrorCodes
        /\ wstate[last.w] = "failed"
        /\ wptr[last.w] = last.ptr
        /\ IF hstatus[last.ptr] # SUCCESS
           THEN last.result = hstatus[last.ptr]
           ELSE last.b # 0 /\ kattach[last.b] = "failed"

C2_Held ==
    \A w \in Wrappers : wstate[w] = "failed" =>
        /\ wdestroys[w] = 0
        /\ rc[wptr[w]] >= 1

C2_Released ==
    \A w \in Wrappers : (wstate[w] = "failed" /\ wstate'[w] # "failed") =>
        /\ wstate'[w] = "dead"
        /\ wdestroys'[w] = 1
        /\ rc'[wptr[w]] = rc[wptr[w]] - 1

\* C2: a construction that fails after the handle was obtained raises an
\* error carrying the non-success status, its wrapper holds the handle
\* (one reference, not yet released), and the teardown of that wrapper is
\* one destroy call on that handle.
C2_FailedConstructionReleasesOnce ==
    /\ [](C2_Raised /\ C2_Held)
    /\ [][C2_Released]_vars

\* a constructor failed on the status check, another on the attach, and a
\* failed wrapper has been torn down
C2_Witness ==
    /\ last.op = "teardown"
    /\ last.rcBefore = 1
    /\ \E w \in Wrappers : wstate[w] = "failed" /\ hstatus[wptr[w]] = SUCCESS
    /\ \E w \in Wrappers : wstate[w] = "dead" /\ htype[wptr[w]] = "FREED"

\* the foreign call that was given the closure of b reported non-success
AttachFailed(b) == kattach[b] = "none" /\ kattach'[b] = "failed"

C3_PinnedOnly ==
    \A b \in instances : kattach[b] = "ok"

C3_ErrorPath ==
    ((\E w \in Wrappers : ConstructionFailed(w)) \/ (\E b \in Bundles : AttachFailed(b)))
        => instances' = instances

\* C3: a bundle is in the registry only if the foreign call that received
\* its closure reported success, and an operation that fails (a constructor
\* on the status check or on the attach, set_mime_data on its foreign call)
\* leaves the registry exactly as it was.
C3_NothingPinnedOnError ==
    /\ []C3_PinnedOnly
    /\ [][C3_ErrorPath]_vars

\* a set_mime_data call has failed while another bundle is pinned
C3_Witness ==
    /\ instances # {}
    /\ \E b \in Bundles : kattach[b] = "failed" /\ kobjects[b] = "mimedata" /\ b \notin instances

\* C4: a bundle that was pinned and whose release callback has then run is
\* not in the registry in any later state, and no bundle is pinned twice.
C4_ReleasedStaysOut ==
    \A b \in Bundles :
        /\ saves[b] <= 1
        /\ fired[b] = "removed" => (saves[b] = 1 /\ b \notin instances)

\* a pinned mime bundle was released while its surface is still alive
C4_Witness ==
    \E b \in Bundles :
        /\ fired[b] = "removed" /\ kobjects[b] = "mimedata"
        /\ \E w \in Wrappers : IsSurfaceWrapper(w)

\* C5: after any interleaving of pins and releases the registry holds
\* exactly the bundles that were pinned and whose release callback has not
\* been invoked.
C5_RegistryIsPinnedMinusReleased ==
    instances = {b \in Bundles : saves[b] >= 1 /\ fired[b] = "no"}

\* the constructor of the wrapper that made h raised
FailedCtor(h) == \E w \in Wrappers : wstate[w] = "failed" /\ wvia[w] = "ctor" /\ wptr[w] = h

\* handles through which cairo can still reach the objects of bundle b
UsersOf(b) == {h \in Handles : rc[h] > 0 /\ userdata[h] = b}

C6_Released ==
    \A b \in Bundles :
        (fired[b] # "no" /\ kobjects[b] \in {"buffer", "adapter"}) => UsersOf(b) = {}

Range(seq) == {seq[i] : i \in DOMAIN seq}
Count(seq, x) == Cardinality({i \in DOMAIN seq : seq[i] = x})
IndexOf(seq, x) == CHOOSE i \in DOMAIN seq : seq[i] = x

\* the last operation ran _from_pointer past its null check
FromPointerRun == "get_type" \in Range(last.calls)

VariantClasses ==
    {"ImageSurface", "PDFSurface", "PSSurface", "SVGSurface", "RecordingSurface",
     "SolidPattern", "SurfacePattern", "LinearGradient", "RadialGradient"}

KnownTags == DOMAIN SURFACE_TYPE_TO_CLASS \cup DOMAIN PATTERN_TYPE_TO_CLASS

\* C7: a wrapper made by _from_pointer for a handle of the kind some variant's
\* constructor creates is an instance of that variant.
C7_RewrapYieldsVariant ==
    \A w \in Wrappers : (wvia[w] = "from_pointer" /\ wstate[w] = "live") =>
        \A cls \in VariantClasses : CtorTag(cls) = htype[wptr[w]] => wclass[w] = cls

BaseClassOf(tag) == IF tag \in SurfaceTags THEN "Surface" ELSE "Pattern"

C8_Base ==
    \A w \in Holding : (wvia[w] = "from_pointer" /\ htype[wptr[w]] \notin KnownTags) =>
        /\ wclass[w] = BaseClassOf(htype[wptr[w]])
        /\ wdestroys[w] = 0
        /\ rc[wptr[w]] >= 1

C8_NoError ==
    (FromPointerRun /\ htype[last.ptr] \notin KnownTags) =>
        /\ last.w # 0
        /\ last.result = CheckStatus(hstatus[last.ptr])
        /\ wstate[last.w] = (IF hstatus[last.ptr] = SUCCESS THEN "live" ELSE "failed")

C8_Owns ==
    \A w \in Holding :
        (wvia[w] = "from_pointer" /\ wclass[w] \in {"Surface", "Pattern"} /\ wstate'[w] # wstate[w]) =>
            /\ wstate'[w] = "dead"
            /\ wdestroys'[w] = 1
            /\ rc'[wptr[w]] = rc[wptr[w]] - 1

\* C8: a wrapper made by _from_pointer for a non-null handle whose tag is not
\* in the table is a Surface or a Pattern, the call raises nothing but what
\* the status check raises, and the wrapper holds one reference that its
\* teardown releases with one destroy call.
C8_UnknownTagYieldsBase ==
    /\ [](C8_Base /\ C8_NoError)
    /\ [][C8_Owns]_vars

\* a base Surface made from the handle of a similar surface has just been
\* torn down, its handle freed by its one destroy call, while the
\* surface it was created from is alive
C8_Witness ==
    /\ last.op = "teardown"
    /\ last.cls = "Surface"
    /\ last.rcBefore = 1
    /\ htype[last.ptr] = "FREED"
    /\ wdestroys[last.w] = 1
    /\ \E w \in Holding : wvia[w] = "ctor" /\ wclass[w] = "ImageSurface"

C9_Raises ==
    (last.op \in {"Surface._from_pointer", "Pattern._from_pointer"} /\ last.ptr = NULL) =>
        /\ last.result = "ValueError"
        /\ last.calls = <<>>
        /\ last.w = 0

C9_NoEffect ==
    (last'.ptr = NULL /\ last'.op \in {"Surface._from_pointer", "Pattern._from_pointer"}) =>
        UNCHANGED <<hvars, wvars, kvars>>

\* C9: _from_pointer with the null sentinel raises the invalid-handle error
\* for either value of incref, having made no foreign call, and changes
\* nothing: no count, no wrapper, no release.
C9_NullPointerRejected ==
    /\ []C9_Raises
    /\ [][C9_NoEffect]_vars

C9_Witness ==
    /\ last.op = "Surface._from_pointer" /\ last.result = "ValueError" /\ last.incref
    /\ \E w \in Wrappers : wstate[w] = "live"

C10_Reference ==
    FromPointerRun =>
        /\ Count(last.calls, "reference") = (IF last.incref THEN 1 ELSE 0)
        /\ last.incref => IndexOf(last.calls, "reference") < IndexOf(last.calls, "gc")
        /\ rc[last.ptr] = last.rcBefore + (IF last.incref THEN 1 ELSE 0)

C10_RoundTrip ==
    (FromPointerRun /\ last.incref /\ wstate[last.w] # "dead" /\ wstate'[last.w] = "dead") =>
        rc'[last.ptr] = last.rcBefore

\* C10: _from_pointer takes one reference, before the wrapper owns the
\* pointer, exactly when incref is true; the count after the call is its
\* value before plus that reference, and tearing the new wrapper down right
\* after a re-wrap with incref=True puts the count back to that value.
C10_IncrefOnce ==
    /\ []C10_Reference
    /\ [][C10_RoundTrip]_vars

\* a surface re-wrapped from its pattern has been torn down while the
\* wrapper that made it is alive
C10_Witness ==
    /\ last.op = "teardown"
    /\ \E v \in Holding :
          /\ wvia[v] = "ctor" /\ wptr[v] = last.ptr /\ v # last.w
          /\ htype[last.ptr] \in SurfaceTags
          /\ rc[last.ptr] = 2

\* ------------------------------------------------- claims on the adapters
RECURSIVE Concat(_)
Concat(chunks) == IF chunks = <<>> THEN <<>> ELSE Head(chunks) \o Concat(Tail(chunks))

\* C11: an invocation of the read adapter in which the source returned fewer
\* bytes than requested (none at end of stream included) returns the
\* read-error status and leaves the destination as it was.
C11_ShortReadIsError ==
    \A i \in DOMAIN adapter.reads :
        LET c == adapter.reads[i]
        IN (~c.raised /\ Len(c.string) < c.length) =>
               (c.ret = READ_ERROR /\ c.dest = c.before)

\* the source ran dry in the middle of a request: one byte returned for two
C11_Witness ==
    \E i \in DOMAIN adapter.reads :
        LET c == adapter.reads[i]
        IN ~c.raised /\ c.length = 2 /\ Len(c.string) = 1 /\ source = <<>>

\* C12: an invocation of the read adapter in which the source returned
\* exactly the requested number of bytes returns success, and the
\* destination then holds those bytes in order.
C12_FullReadCopied ==
    \A i \in DOMAIN adapter.reads :
        LET c == adapter.reads[i]
        IN (~c.raised /\ Len(c.string) = c.length) =>
               /\ c.ret = SUCCESS
               /\ Len(c.dest) = c.length
               /\ \A j \in 1..c.length : c.dest[j] = c.string[j]

\* two different bytes were requested and copied
C12_Witness ==
    \E i \in DOMAIN adapter.reads :
        LET c == adapter.reads[i]
        IN c.ret = SUCCESS /\ c.length = 2 /\ c.string = <<0, 1>>

\* C13: the sink is written once per invocation, with that invocation's
\* length bytes, and what it has accepted is the concatenation of the
\* foreign buffers in invocation order.
C13_SinkIsConcatenation ==
    /\ \A i \in DOMAIN adapter.writes :
           LET c == adapter.writes[i]
           IN Len(c.arg) = c.length /\ \A j \in 1..c.length : c.arg[j] = c.mem[j]
    /\ sink = Concat([i \in DOMAIN adapter.writes |->
                         IF adapter.writes[i].raised THEN <<>>
                         ELSE SubSeq(adapter.writes[i].mem, 1, adapter.writes[i].length)])

\* two invocations with different buffers, one shorter than the memory behind it
C13_Witness ==
    /\ Len(adapter.writes) = 2
    /\ adapter.writes[1].length = 2 /\ adapter.writes[2].length = 1
    /\ Len(adapter.writes[2].mem) = 2
    /\ sink = <<0, 1, 1>>

\* C14: the write adapter returns success when the sink's write returned
\* and the write-error status when it raised; it returns a status in every
\* case, so nothing is raised into cairo.
C14_WriteStatus ==
    \A i \in DOMAIN adapter.writes :
        LET c == adapter.writes[i]
        IN /\ c.ret \in {SUCCESS, WRITE_ERROR}
           /\ c.ret = SUCCESS <=> ~c.raised

\* a write that was accepted, then one that raised
C14_Witness ==
    /\ Len(adapter.writes) = 2
    /\ ~adapter.writes[1].raised /\ adapter.writes[2].raised
    /\ adapter.writes[2].ret = WRITE_ERROR

\* C15: when a stream callback reported an error to cairo during a PNG call,
\* the call raises the error of that status: write_to_png does not return
\* normally and create_from_png returns no surface.
C15_AdapterErrorRaised ==
    /\ (last.op = "write_to_png" /\ \E i \in DOMAIN xfer : xfer[i].ret = WRITE_ERROR)
           => last.result = WRITE_ERROR
    /\ (last.op = "create_from_png" /\ \E i \in DOMAIN xfer : xfer[i].ret = READ_ERROR)
           => (last.result = READ_ERROR /\ wstate[last.w] = "failed")

\* create_from_png has failed on a truncated stream, then write_to_png on
\* a sink whose second write raised
C15_Witness ==
    /\ last.op = "write_to_png" /\ last.result = WRITE_ERROR
    /\ Len(xfer) = 2
    /\ \E w \in Wrappers : wstate[w] = "failed" /\ hstatus[wptr[w]] = READ_ERROR

\* the methods the claim lists, set_mime_data apart
ClaimedMutators ==
    {"set_device_offset", "set_fallback_resolution", "mark_dirty", "mark_dirty_rectangle",
     "show_page", "copy_page", "flush", "finish",
     "set_size", "restrict_to_version", "restrict_to_level", "set_eps",
     "dsc_comment", "dsc_begin_setup", "dsc_begin_page_setup",
     "set_extend", "set_filter", "set_matrix", "add_color_stop_rgb", "add_color_stop_rgba"}

\* C16: every mutating method queries the status after its foreign call and
\* raises the error of exactly the status the object then has; set_mime_data
\* raises exactly when its foreign call reported non-success.
C16_MutatorsCheckStatus ==
    /\ last.op \in ClaimedMutators =>
           /\ last.calls = <<last.op, "status">>
           /\ last.result = CheckStatus(hstatus[last.ptr])
    /\ last.op = "set_mime_data" =>
           /\ last.result \in {"ok"} \cup ErrorCodes
           /\ last.b # 0 => (last.result = "ok" <=> kattach[last.b] = "ok")

\* a gradient method has raised while a PostScript surface is alive
C16_Witness ==
    /\ last.op = "add_color_stop_rgb" /\ last.result = "NO_MEMORY"
    /\ \E w \in Wrappers : wstate[w] = "live" /\ wclass[w] = "PSSurface"

\* C20: create_from_png on a stream holding all the bytes write_to_png
\* returned for an image surface succeeds and gives an image surface with
\* the pixels of that surface.
C20_PngRoundTrip ==
    (last.op = "create_from_png" /\ last.arg = "stream" /\ png.of # NULL) =>
        /\ last.result = "ok"
        /\ wstate[last.w] = "live" /\ wclass[last.w] = "ImageSurface"
        /\ hpix[last.ptr] = hpix[png.of]

\* an image of two pixels, one of them translucent, has made the round trip
C20_Witness ==
    /\ last.op = "create_from_png" /\ last.result = "ok"
    /\ last.arg = "stream"
    /\ Concat([i \in DOMAIN xfer |-> xfer[i].string]) = png.bytes
    /\ last.ptr # png.of
    /\ Len(hpix[last.ptr]) = MaxPixels
    /\ \E i \in DOMAIN hpix[last.ptr] : hpix[last.ptr][i] = <<1, 1>>
    /\ hpix[last.ptr] = hpix[png.of]

\* ------------------------------------------- claims on pinning (continued)
C17_Pinned ==
    \A h \in Handles :
        (rc[h] > 0 /\ htype[h] = "IMAGE" /\ hretains[h] = "buffer" /\ ~FailedCtor(h)) =>
            LET b == userdata[h]
            IN /\ b # NULL
               /\ kobjects[b] = "buffer" /\ kattach[b] = "ok"
               /\ b \in instances /\ saves[b] = 1 /\ fired[b] = "no" /\ b \notin pending
               /\ \A g \in Handles : userdata[g] = b => g = h

\* the construction succeeds unless the attach call itself reported failure
C17_Constructed ==
    (last.op = "ImageSurface" /\ hretains[last.ptr] = "buffer") =>
        /\ last.b # 0
        /\ \/ /\ last.result = "ok" /\ wstate[last.w] = "live"
              /\ userdata[last.ptr] = last.b /\ kattach[last.b] = "ok"
           \/ /\ last.result # "ok" /\ kattach[last.b] = "failed"

C17_Steps ==
    \A b \in Bundles :
        /\ (kobjects[b] = "none" /\ kobjects'[b] = "buffer" /\ kattach'[b] = "ok") =>
               (b \notin instances /\ instances' = instances \cup {b})
        /\ (kobjects[b] = "buffer" /\ b \notin pending /\ b \in pending') =>
               (\E h \in Handles : userdata[h] = b /\ rc[h] = 1 /\ rc'[h] = 0)
        /\ (kobjects[b] = "buffer" /\ fired[b] = "no" /\ fired'[b] # "no") =>
               /\ fired'[b] = "removed"
               /\ b \in instances /\ instances' = instances \ {b}
               /\ b \notin pending'
        /\ (kobjects[b] = "buffer" /\ fired[b] # "no") =>
               (fired'[b] = fired[b] /\ b \notin pending' /\ b \notin instances')

C17_Released ==
    \A b \in Bundles :
        (kobjects[b] = "buffer" /\ b \in pending) ~> (fired[b] = "removed" /\ b \notin instances)

C18_State ==
    last.op \in StreamClasses =>
        /\ last.arg = "fileobj" =>
               /\ last.calls[1] = "create_for_stream(write_func)"
               /\ last.result = "ok" =>
                      (last.b # 0 /\ kobjects[last.b] = "adapter" /\ last.b \in instances
                       /\ userdata[last.ptr] = last.b)
        /\ last.arg = "None" =>
               (last.calls[1] = "create_for_stream(NULL)" /\ last.b = 0
                /\ userdata[last.ptr] = NULL)
        /\ last.arg = "filename" =>
               (last.calls[1] = "create" /\ last.b = 0 /\ userdata[last.ptr] = NULL)

C18_Step ==
    (last'.op \in StreamClasses /\ last' # last) =>
        IF last'.arg = "fileobj" /\ last'.result = "ok"
        THEN /\ last'.b \notin instances
             /\ instances' = instances \cup {last'.b}
             /\ kobjects[last'.b] = "none"
        ELSE /\ instances' = instances
             /\ last'.arg # "fileobj" => kobjects' = kobjects

\* C18: a PDF, PostScript or SVG surface constructed on an object with a
\* write method pins exactly one bundle, which holds the write adapter; on
\* None cairo is given the null function and nothing is pinned; on a
\* filename no adapter is made and nothing is pinned.
C18_StreamTargetPinning ==
    /\ []C18_State
    /\ [][C18_Step]_vars

\* a surface on None has been constructed while the adapter of a surface
\* on a file object is pinned
C18_Witness ==
    /\ last.op = "PSSurface" /\ last.arg = "None" /\ last.result = "ok"
    /\ \E b \in instances : kobjects[b] = "adapter"

\* C19: the release callback of a bundle runs only after save() has put it
\* in the registry: no callback finds its bundle missing.
C19_SaveBeforeRelease ==
    \A b \in Bundles :
        /\ fired[b] # "KeyError"
        /\ fired[b] # "no" => saves[b] = 1

\* ---- C21
\* data attached by a set_mime_data call that has returned: get_mime_data
\* gives the bytes of the call, and its bundle is pinned, saved once
C21_Attached ==
    \A h \in Handles, t \in MimeTypes :
        LET b == mime[h][t]
        IN (b # NULL /\ kcaller[b] = 0) =>
            /\ Surface_get_mime_data(h, t) = [none |-> FALSE, bytes |-> mdata[b].data]
            /\ saves[b] = 1
            /\ {c \in instances \ pending : c \in AttachedTo(h)} = {b}

\* a successful set_mime_data(t, None): get_mime_data gives None afterwards,
\* the release of a bundle that was pinned for t is due, and the call
\* creates and pins nothing
C21_Removal ==
    (last'.op = "set_mime_data" /\ last'.arg = "None" /\ last'.result = "ok") =>
        /\ \E h \in Handles, t \in MimeTypes :
              /\ h = last'.ptr
              /\ Surface_get_mime_data(h, t)' = [none |-> TRUE, bytes |-> <<>>]
              /\ (mime[h][t] \in instances) => (mime[h][t] \in pending')
        /\ instances' = instances
        /\ kobjects' = kobjects
        /\ saves' = saves

\* a pinned bundle whose release is due leaves the registry
C21_Released ==
    \A b \in Bundles : (b \in pending /\ b \in instances) ~> (b \notin instances)

\* C21: MIME data round trip. After a set_mime_data(t, d) with d given has
\* returned successfully, get_mime_data(t) is a buffer equal to d and exactly
\* one bundle for it is pinned; a later successful set_mime_data(t, None)
\* makes get_mime_data(t) None, pins nothing itself, and the earlier bundle
\* is released from the registry.
C21_MimeRoundTrip == []C21_Attached /\ [][C21_Removal]_vars /\ C21_Released

\* non-empty data was attached, then removed while the surface lives, and
\* its bundle has been released
C21_Witness ==
    /\ last.op = "release_callback" /\ last.result = "ok"
    /\ kobjects[last.b] = "mimedata" /\ Len(mdata[last.b].data) = MaxChunk
    /\ saves[last.b] = 1 /\ last.b \notin instances
    /\ \A c \in Bundles \ {last.b} : kobjects[c] = "none"
    /\ \E w \in Holding : wstate[w] = "live" /\ rc[wptr[w]] > 0
                            /\ Surface_get_mime_data(wptr[w], "image/png").none

\* ---- C22
\* C22: version_to_string and ps_level_to_string raise an error that carries
\* the value given whenever cairo has no name for it (a null pointer), and
\* return the decoded name otherwise; no value is returned for an unknown
\* version.
C22_UnknownVersionRaises ==
    call.fn \in VersionFunctions =>
        LET c_string == ForeignToString(call.fn, call.version)
        IN IF c_string = CNull
           THEN call.out = [raised |-> "ValueError", args |-> <<call.version>>]
           ELSE call.out = [raised |-> "none",
                            returns |-> SubSeq(c_string, 1, Len(c_string) - 1)]

\* a level cairo does not know was asked for, after a version it knows
C22_Witness ==
    /\ call.fn = "PSSurface.ps_level_to_string"
    /\ call.version = MaxVersion
    /\ call.out.raised = "ValueError"

\* ---- C30
\* the size of a buffer object in bytes
ByteLength(obj) == obj.items * obj.itemsize

\* C30: ImageSurface over a caller's buffer of fewer than stride * height
\* bytes fails before any foreign surface is created (no handle, no release,
\* nothing pinned), and a buffer of at least stride * height bytes passes
\* the size check.
C30_ShortBufferRejected ==
    (call.fn = "ImageSurface" /\ last.op = "ImageSurface") =>
        IF ByteLength(call.obj) < call.stride * call.height
        THEN /\ call.raised = "ValueError"
             /\ last.result = "ValueError"
             /\ last.ptr = NULL /\ last.w = 0 /\ last.b = 0 /\ last.calls = <<>>
        ELSE call.raised # "ValueError"

\* ---- C23
\* wrappers that have not been torn down and hold handle h
WrappersOn(h) == {w \in Holding : wptr[w] = h}

\* C23: through construction, re-wrapping and teardown every wrapper accounts
\* for one unit of its resource's foreign reference count: the count is at
\* least the number of wrappers of the resource, native storage is never
\* released while a wrapper refers to it, and it is released once the last
\* holder is gone.
C23_CountCoversWrappers ==
    \A h \in Handles :
        /\ rc[h] >= Cardinality(WrappersOn(h))
        /\ WrappersOn(h) # {} => (rc[h] > 0 /\ htype[h] \notin {"NONE", "FREED"})
        /\ (htype[h] # "NONE" /\ Holders(h) = 0) => (rc[h] = 0 /\ htype[h] = "FREED")

\* a surface re-wrapped from a pattern outlives the wrapper that made it:
\* the count still covers the pattern and the second wrapper
C23_Witness ==
    /\ last.op = "teardown" /\ last.ptr # NULL
    /\ htype[last.ptr] \in SurfaceTags
    /\ rc[last.ptr] = 2
    /\ \E w \in WrappersOn(last.ptr) : wstate[w] = "live" /\ wvia[w] = "from_pointer"
    /\ \E p \in Handles : rc[p] > 0 /\ hsrc[p] = last.ptr

\* ---- C24
\* foreign calls made by _from_pointer itself, after those of its caller
CallsOfFromPointer ==
    SubSeq(last.calls,
           IF "reference" \in Range(last.calls)
           THEN Min(IndexOf(last.calls, "reference"), IndexOf(last.calls, "get_type"))
           ELSE IndexOf(last.calls, "get_type"),
           Len(last.calls))

\* handles that name a native resource, live or released
Allocated == {h \in Handles : htype[h] # "NONE"}

C24_Calls ==
    FromPointerRun =>
        /\ Range(CallsOfFromPointer) \subseteq {"reference", "get_type", "gc", "status"}
        /\ Count(CallsOfFromPointer, "get_type") = 1
        /\ Count(CallsOfFromPointer, "status") <= 1
        /\ ("reference" \in Range(CallsOfFromPointer)) => last.incref
        /\ last.b = 0

C24_Frame ==
    (FromPointerRun' /\ wstate[last'.w] = "unused" /\ wstate'[last'.w] # "unused") =>
        /\ instances' = instances /\ saves' = saves /\ pending' = pending
        /\ kobjects' = kobjects /\ kattach' = kattach
        /\ userdata' = userdata /\ mime' = mime
        /\ Allocated' = Allocated \cup (IF Head(last'.calls) = "create" THEN {last'.ptr} ELSE {})
        /\ \A h \in Allocated :
              /\ htype'[h] = htype[h] /\ hstatus'[h] = hstatus[h]
              /\ rc'[h] = rc[h] + (IF h = last'.ptr /\ last'.incref THEN 1 ELSE 0)

\* C24: _from_pointer only adopts the resource it is given. It calls no
\* foreign creation entry point, attaches no user data and pins no bundle;
\* native resources and the registry are as its caller left them, and its
\* foreign effects are the optional reference, the type query and the
\* status query.
C24_RewrapOnlyAdopts == []C24_Calls /\ [][C24_Frame]_vars

\* the surface of a pattern, which has a buffer pinned, has been re-wrapped
C24_Witness ==
    /\ last.op = "get_surface" /\ last.result = "ok" /\ last.incref
    /\ wstate[last.w] = "live" /\ wclass[last.w] = "ImageSurface"
    /\ userdata[last.ptr] \in instances
    /\ Cardinality(instances) = 1

\* ---- C27
C27_Raises ==
    (FromPointerRun /\ last.w # 0 /\ hstatus[last.ptr] # SUCCESS) =>
        /\ wstate[last.w] = "failed"
        /\ last.result = hstatus[last.ptr]
        /\ wptr[last.w] = last.ptr /\ wdestroys[last.w] = 0
        /\ rc[last.ptr] = last.rcBefore + (IF last.incref THEN 1 ELSE 0)

C27_Teardown ==
    \A w \in Wrappers :
        (wstate[w] = "failed" /\ wvia[w] = "from_pointer" /\ wstate'[w] = "dead") =>
            /\ wdestroys'[w] = 1
            /\ rc'[wptr[w]] = rc[wptr[w]] - 1
            /\ (FromPointerRun /\ last.w = w) =>
                  rc'[wptr[w]] = last.rcBefore - (IF last.incref THEN 0 ELSE 1)

C27_Once ==
    \A w \in Wrappers : wstate[w] = "dead" => (wdestroys'[w] = wdestroys[w] /\ wstate'[w] = "dead")

\* C27: _from_pointer on a non-null handle whose status is not success
\* raises the status error. With incref=True the count, once the failed
\* wrapper is torn down, is what it was before the call: the reference taken
\* is given back exactly once. With incref=False the one reference handed
\* over is released exactly once.
C27_FailedRewrapReleasesOnce ==
    /\ []C27_Raises
    /\ [][C27_Teardown /\ C27_Once]_vars

\* a surface whose status had become an error was re-wrapped from its
\* pattern with incref=True, the re-wrap raised, and the failed wrapper has
\* been torn down: the count covers the first wrapper and the pattern again
C27_Witness ==
    /\ last.op = "teardown" /\ wstate[last.w] = "dead" /\ wdestroys[last.w] = 1
    /\ last.rcBefore = 3 /\ rc[last.ptr] = 2
    /\ htype[last.ptr] \in SurfaceTags /\ hstatus[last.ptr] # SUCCESS
    /\ \E w \in Holding : wptr[w] = last.ptr /\ wstate[w] = "live" /\ wvia[w] = "ctor"
    /\ \E p \in Handles : rc[p] > 0 /\ hsrc[p] = last.ptr

\* ---- C25
C25_Step ==
    \A b \in instances :
        /\ kobjects'[b] = kobjects[b]
        /\ b \notin instances' =>
              /\ b \in pending /\ b \notin pending'
              /\ fired[b] = "no" /\ fired'[b] = "removed"
              /\ instances' = instances \ {b}

\* C25: a bundle leaves the registry only in the step in which cairo invokes
\* its release callback; teardown, re-wrapping, construction and
\* set_mime_data neither remove nor replace a pinned bundle.
C25_OnlyCallbackRemoves == [][C25_Step]_vars

\* one bundle has been released by its callback after a wrapper was torn
\* down, while another stays pinned
C25_Witness ==
    /\ \E b \in Bundles : fired[b] = "removed" /\ b \notin instances
    /\ instances # {}
    /\ Dead # {}

C28_SinkGivenCopy ==
    \A i \in DOMAIN adapter.writes :
        RetainedObject(i) = FfiBuffer(adapter.writes[i].mem, adapter.writes[i].length)

\* ---- C29
\* C29: whatever the source does with a request for N bytes (fewer, exactly
\* N, more, or an exception), the read adapter leaves the destination N
\* bytes long and writes nowhere else, returns success only when exactly N
\* bytes were copied into it, and returns the read-error status otherwise;
\* it always returns a status.
C29_ReadAdapterSafe ==
    \A i \in DOMAIN adapter.reads :
        LET r == adapter.reads[i]
        IN /\ r.ret \in {SUCCESS, READ_ERROR}
           /\ Len(r.dest) = r.length
           /\ IF ~r.raised /\ Len(r.string) = r.length
              THEN r.ret = SUCCESS /\ r.dest = r.string
              ELSE r.ret = READ_ERROR /\ r.dest = r.before

\* the source returned more bytes than were asked for, after a request it
\* served exactly
C29_Witness ==
    /\ Len(adapter.reads) = 2
    /\ adapter.reads[1].ret = SUCCESS /\ adapter.reads[1].length = 1
    /\ ~adapter.reads[2].raised
    /\ Len(adapter.reads[2].string) > adapter.reads[2].length
    /\ adapter.reads[2].ret = READ_ERROR

====
